---- MODULE Spec2Model ----
(***************************************************************************)
(* Sharded vector store of obsidian-rag-search: the consistent-hash ring,  *)
(* the LRU shard cache, the ShardManager (getShard, persistShard,          *)
(* rebalance) and the DocumentRepository (saveMany, search).               *)
(*                                                                         *)
(* A shard handle (an Orama instance) is an object on a heap, so that a    *)
(* handle a task still holds after the cache evicted it stays distinct     *)
(* from the handle a later getShard restores from the file.  A shard's     *)
(* content is the map id -> content version of its stored documents; the   *)
(* id list internalIdToId is the list of the ids it stores.                *)
(***************************************************************************)
EXTENDS Integers, Sequences, FiniteSets, TLC

\* ------------------------------------------------------------------ bounds
MaxShards == 3            \* largest shard count a rebalance may ask for
MaxContent == 2           \* content versions of one document id
MaxBatch == 2             \* documents in one saveMany batch
MaxK == 2                 \* largest k of a search on the sharded store
MaxLoadedShards == 4      \* largest shard count of a store loaded from disk
MaxSearchDocs == 12       \* documents of the search-merge specification
MaxAnon == 2              \* documents without an id in one saveMany batch
MaxLruCap == 2            \* largest capacity of the LRU on its own
MaxLruVal == 2            \* values stored in the LRU on its own
MaxRingNodes == 3         \* node names of the rings on their own
MaxReplicas == 2          \* small replica counts of the rings on their own
MaxAutoShards == 33       \* largest shard count autoRebalance starts from
MaxAutoCalls == 3         \* autoRebalance calls in a row
MaxDirFiles == 3          \* shard files of the directory init is called on
MaxCallers == 3           \* concurrent callers of getShard
MaxFiles == 1001          \* file paths given to one reindex
MaxGrowShards == 5        \* largest shard count a loaded store is grown to
MaxModelValues == 2       \* distinct values the model returns as structured output
MaxModelErrors == 3       \* distinct errors the structured model call throws
MaxConvs == 2             \* invocations of one chat graph
MaxParams == 2            \* distinct search parameters the model proposes

\* ------------------------------------------------------- program constants
Replicas == 100           \* HashRing default replicas
DefaultCacheSize == 3     \* ShardManager constructor cacheSize default
DefaultShards == 1        \* ShardManager.create defaultShards
OramaDefaultLimit == 10   \* limit Orama's search applies when none is given
DefaultSimilarity == 60   \* lambda ?? 0.6, in hundredths
MAX_SHARD_SIZE_MB == 500  \* ShardManager.MAX_SHARD_SIZE_MB
MIN_SHARD_SIZE_MB == 100  \* ShardManager.MIN_SHARD_SIZE_MB
MIN_SHARDS == 2           \* ShardManager.MIN_SHARDS
MAX_SHARDS == 32          \* ShardManager.MAX_SHARDS
BATCH_SIZE == 500         \* DocumentService.reindex BATCH_SIZE
MAX_RETRIES == 3          \* makeEvaluateNode MAX_RETRIES
StructuredAttempts == 3   \* callWithStructuredOutput: for (let i = 0; i < 3; i++)

\* ------------------------------------------------------------ 32-bit hash
\* A 32-bit unsigned value is the pair <<high 16 bits, low 16 bits>>.
W16 == 65536

Larger(x, y) == IF x > y THEN x ELSE y
Smaller(x, y) == IF x < y THEN x ELSE y

RECURSIVE Xor(_, _, _)
Xor(a, b, n) ==
    IF n = 0 THEN 0
    ELSE (((a % 2) + (b % 2)) % 2) + 2 * Xor(a \div 2, b \div 2, n - 1)

\* Math.imul(h, 0x01000193) >>> 0, the multiplier given as 0x0100 * 2^16 + 0x0193
Imul(h, hiMul, loMul) ==
    LET p == h[2] * loMul
    IN  << (h[1] * loMul + (p \div W16) + h[2] * hiMul) % W16, p % W16 >>

\* (h + (h << k)) >>> 0
AddShl(h, k) ==
    LET m  == 2 ^ k
        sl == (h[2] * m) % W16
        sh == (h[1] * m + ((h[2] * m) \div W16)) % W16
        lo == h[2] + sl
    IN  << (h[1] + sh + (lo \div W16)) % W16, lo % W16 >>

\* h ^ (h >>> k) for k < 16
XorShr(h, k) ==
    LET m  == 2 ^ k
        rl == ((h[2] \div m) + (h[1] % m) * (W16 \div m)) % W16
        rh == h[1] \div m
    IN  << Xor(h[1], rh, 16), Xor(h[2], rl, 16) >>

\* h ^ (h >>> 17)
XorShr17(h) == << h[1], Xor(h[2], h[1] \div 2, 16) >>

RECURSIVE FnvLoop(_, _, _)
FnvLoop(str, i, h) ==
    IF i > Len(str) THEN h
    ELSE FnvLoop(str, i + 1, Imul(<< h[1], Xor(h[2], str[i], 16) >>, 256, 403))

\* HashRing.fnv1a: FNV-1a over the UTF-16 code units, then avalanche mixing.
\* 0x811c9dc5 = <<33052, 40389>>.
fnv1a(str) ==
    LET h0 == FnvLoop(str, 1, << 33052, 40389 >>)
        h1 == AddShl(h0, 13)
        h2 == XorShr(h1, 7)
        h3 == AddShl(h2, 3)
        h4 == XorShr17(h3)
    IN  AddShl(h4, 5)

HashLt(a, b) == a[1] < b[1] \/ (a[1] = b[1] /\ a[2] < b[2])

\* ----------------------------------------------------- strings of the ring
\* A string is the sequence of its character codes.
RECURSIVE NumToString(_)
NumToString(i) ==
    IF i < 10 THEN << 48 + i >>
    ELSE Append(NumToString(i \div 10), 48 + (i % 10))

RECURSIVE ParseIntLoop(_, _, _)
ParseIntLoop(str, i, acc) ==
    IF i > Len(str) \/ str[i] < 48 \/ str[i] > 57 THEN acc
    ELSE ParseIntLoop(str, i + 1, acc * 10 + (str[i] - 48))

\* parseInt(str, 10) of a string of decimal digits
parseInt(str) == ParseIntLoop(str, 1, 0)

\* node names that follow the 1-indexed file names
nodeNameOneBased(i) == NumToString(i + 1)

\* ShardManager.nodeName: i.toString()
nodeName(i) == NumToString(i)

\* the virtual node key `${nodeId}:${i}`
VNodeKey(nodeId, i) == nodeId \o << 58 >> \o NumToString(i)

\* ---------------------------------------------------------------- HashRing
EmptyRing == [ring |-> << >>, nodes |-> {}]

RECURSIVE InsertPos(_, _, _, _)
InsertPos(vnodes, hash, lo, hi) ==
    IF lo >= hi THEN lo
    ELSE LET mid == (lo + hi) \div 2
         IN  IF HashLt(vnodes[mid + 1].hash, hash)
             THEN InsertPos(vnodes, hash, mid + 1, hi)
             ELSE InsertPos(vnodes, hash, lo, mid)

\* an insert that appends without looking for the position
RingInsertAppend(vnodes, vn) == Append(vnodes, vn)

\* HashRing.insert: binary search for the first entry with hash >= vn.hash,
\* then splice
RingInsert(vnodes, vn) ==
    LET lo == InsertPos(vnodes, vn.hash, 0, Len(vnodes))
    IN  SubSeq(vnodes, 1, lo) \o << vn >> \o SubSeq(vnodes, lo + 1, Len(vnodes))

RECURSIVE AddReplicas(_, _, _, _)
\* the virtual nodes i .. stop - 1 of nodeId are inserted in ascending order
AddReplicas(vnodes, nodeId, i, stop) ==
    IF i >= stop THEN vnodes
    ELSE LET next == RingInsert(vnodes, [hash |-> fnv1a(VNodeKey(nodeId, i)),
                                       node |-> nodeId])
         IN  IF Len(next) = 0 THEN next ELSE AddReplicas(next, nodeId, i + 1, stop)

RECURSIVE AddChunksOf(_, _, _, _)
\* for (i = 0; i < replicas; i++) insert, ten virtual nodes at a time to keep
\* the evaluation shallow
AddChunksOf(vnodes, nodeId, i, replicas) ==
    IF i >= replicas THEN vnodes
    ELSE LET stop == IF i + 10 < replicas THEN i + 10 ELSE replicas
             next == AddReplicas(vnodes, nodeId, i, stop)
         IN  IF Len(next) = 0 /\ stop >= replicas THEN next
             ELSE AddChunksOf(next, nodeId, stop, replicas)

\* the loop of addNode on a ring of the default replica count
AddChunks(vnodes, nodeId, i) == AddChunksOf(vnodes, nodeId, i, Replicas)

\* HashRing.addNode on a ring of the default replica count
addNode(hr, nodeId) ==
    IF nodeId \in hr.nodes THEN hr
    ELSE [ring |-> AddChunks(hr.ring, nodeId, 0),
          nodes |-> hr.nodes \cup {nodeId}]

\* an addNode that does not look whether the node is registered
addNodeOfAgain(hr, nodeId, replicas) ==
    [ring |-> AddChunksOf(hr.ring, nodeId, 0, replicas),
     nodes |-> hr.nodes \cup {nodeId}]

\* HashRing.addNode on a ring constructed with {replicas}
addNodeOf(hr, nodeId, replicas) ==
    IF nodeId \in hr.nodes THEN hr
    ELSE [ring |-> AddChunksOf(hr.ring, nodeId, 0, replicas),
          nodes |-> hr.nodes \cup {nodeId}]

\* a removeNode that forgets the node and leaves its virtual nodes
removeNodeLeaveVnodes(hr, nodeId) ==
    [ring |-> hr.ring, nodes |-> hr.nodes \ {nodeId}]

\* HashRing.removeNode
removeNode(hr, nodeId) ==
    IF nodeId \notin hr.nodes THEN hr
    ELSE [ring  |-> SelectSeq(hr.ring, LAMBDA vn : vn.node # nodeId),
          nodes |-> hr.nodes \ {nodeId}]

RECURSIVE LookupPos(_, _, _, _)
LookupPos(vnodes, h, lo, hi) ==
    IF lo >= hi THEN lo
    ELSE LET mid == (lo + hi) \div 2
         IN  IF HashLt(h, vnodes[mid + 1].hash)
             THEN LookupPos(vnodes, h, lo, mid)
             ELSE LookupPos(vnodes, h, mid + 1, hi)

RingIsEmpty(hr) == Len(hr.ring) = 0

\* HashRing.getNode on a non-empty ring
getNode(hr, key) ==
    LET lo == LookupPos(hr.ring, fnv1a(key), 0, Len(hr.ring))
    IN  hr.ring[(lo % Len(hr.ring)) + 1].node

\* the ring a manager builds for n shards: addNode("0") .. addNode("n-1")
RECURSIVE RingWithNodes(_)
RingWithNodes(n) ==
    IF n = 0 THEN EmptyRing ELSE addNode(RingWithNodes(n - 1), nodeName(n - 1))

\* --------------------------------------------------------------- documents
\* document ids "a", "b", "d", "h", "l": on a ring of four shards "l", "b",
\* "d" go to the shards 0, 1, 2 and both "a" and "h" to shard 3
DocIds == { << 97 >>, << 98 >>, << 100 >>, << 104 >>, << 108 >> }
Contents == 1 .. MaxContent
Absent == 0

\* the most shards any specification of this module uses
MaxRing == Larger(Larger(MaxShards, MaxLoadedShards), MaxGrowShards)
ShardIdx == 0 .. (MaxRing - 1)

RingOf == [n \in 0 .. MaxRing |-> RingWithNodes(n)]

\* getNode of every document id on the ring of n shards
NodeTable == [n \in 1 .. MaxRing |-> [d \in DocIds |-> getNode(RingOf[n], d)]]

\* an Orama instance: id -> content version of the stored document, Absent
\* when the id is not stored
EmptyDb == [d \in DocIds |-> Absent]

\* createBasedOnLangage: a fresh instance holds no document
createBasedOnLangage == EmptyDb

\* ids of internalIdToId, in a fixed order
IdsOf(db) == { d \in DocIds : db[d] # Absent }

RECURSIVE SetToSeq(_)
SetToSeq(S) ==
    IF S = {} THEN << >>
    ELSE LET m == CHOOSE x \in S : \A y \in S : x[1] <= y[1]
         IN  << m >> \o SetToSeq(S \ {m})

internalIdToId(db) == SetToSeq(IdsOf(db))

\* Orama getByID: the stored document, Absent for undefined
getByID(db, id) == db[id]

\* Orama insert fails with DOCUMENT_ALREADY_EXISTS when the id is stored
InsertThrows(db, id) == db[id] # Absent
insert(db, id, content) == [db EXCEPT ![id] = content]

\* Orama remove: drops the document, no effect when the id is not stored
remove(db, id) == [db EXCEPT ![id] = Absent]

\* Orama updateMultiple(shard, ids, docs): removes ids, then inserts docs.
\* docs is a map id -> content, Absent for ids not in the group.
updateMultiple(db, ids, docs) ==
    LET removed == [d \in DocIds |-> IF d \in ids THEN Absent ELSE db[d]]
    IN  [d \in DocIds |-> IF docs[d] # Absent THEN docs[d] ELSE removed[d]]

\* count of an Orama instance
Count(db) == Cardinality(IdsOf(db))

\* --------------------------------------------------------------------- LRU
\* The Map of an LRU is the sequence of its [k, v] entries in insertion
\* order: the head is the least recently used.
LruHas(map, key) == \E i \in 1 .. Len(map) : map[i].k = key
LruIndex(map, key) == CHOOSE i \in 1 .. Len(map) : map[i].k = key
LruDelete(map, key) ==
    IF LruHas(map, key)
    THEN LET i == LruIndex(map, key)
         IN  SubSeq(map, 1, i - 1) \o SubSeq(map, i + 1, Len(map))
    ELSE map

\* a get that leaves the key where it is in the order
LruGetNoTouch(map, key) ==
    IF LruHas(map, key)
    THEN [hit |-> TRUE, v |-> map[LruIndex(map, key)].v, map |-> map]
    ELSE [hit |-> FALSE, v |-> 0, map |-> map]

\* LRU.get: [hit, v, map]
LruGet(map, key) ==
    IF LruHas(map, key)
    THEN LET e == map[LruIndex(map, key)]
         IN  [hit |-> TRUE, v |-> e.v, map |-> Append(LruDelete(map, key), e)]
    ELSE [hit |-> FALSE, v |-> 0, map |-> map]

\* an eviction threshold one entry too high
EvictAboveLate(max) == max + 1

\* the number of entries above which LRU.set evicts
EvictAbove(max) == max

\* LRU.set: [map, evicted, ek, ev]; onEvict is applied by the caller to
\* the evicted entry
LruSet(map, max, key, val) ==
    LET m1 == Append(LruDelete(map, key), [k |-> key, v |-> val])
    IN  IF Len(m1) > EvictAbove(max)
        THEN [map |-> Tail(m1), evicted |-> TRUE, ek |-> m1[1].k, ev |-> m1[1].v]
        ELSE [map |-> m1, evicted |-> FALSE, ek |-> 0, ev |-> 0]

\* a set that puts the evicted entry back, and drops the new one, when
\* onEvict throws
LruSetRollback(map, max, key, val, fails) ==
    LET r == LruSet(map, max, key, val)
    IN  [map   |-> IF r.evicted /\ fails THEN map ELSE r.map,
         calls |-> IF r.evicted THEN << [k |-> r.ek, v |-> r.ev] >> ELSE << >>,
         threw |-> r.evicted /\ fails]

\* LRU.set with its callback: [map, calls, threw], calls the arguments of
\* the onEvict calls made, threw whether set threw because onEvict did
LruSetCb(map, max, key, val, fails) ==
    LET r == LruSet(map, max, key, val)
    IN  [map   |-> r.map,
         calls |-> IF r.evicted THEN << [k |-> r.ek, v |-> r.ev] >> ELSE << >>,
         threw |-> r.evicted /\ fails]

LruKeys(map) == { map[i].k : i \in 1 .. Len(map) }
LruVals(map) == { map[i].v : i \in 1 .. Len(map) }

\* a clear that leaves the entries in place
LruClearKeep(map) == map

\* clear(): the map is emptied, onEvict is not called
LruClear(map) == << >>

\* ------------------------------------------------------------------- state
VARIABLES
    numOfShards,   \* ShardManager.numOfShardsValue
    ring,          \* ShardManager.ring: the node names registered on it
    cacheMax,      \* capacity of ShardManager.cache
    cache,         \* ShardManager.cache: LRU map from shard index to handle
    heap,          \* the live Orama instances: handle -> content
    files,         \* the shard files: index -> [exists, data]
    inflight,      \* writes of persistShard calls nobody awaits
    pc,            \* the operation in progress and its position
    op,            \* locals of the rebalance in progress
    tasks,         \* per-shard tasks of the saveMany in progress
    batch,         \* documents of the saveMany in progress
    outcome,       \* how the last operation settled
    result,        \* hits returned by the last search
    last,          \* the last operation called, with its arguments
    ioCount,       \* file writes and deletes since the last call
    pre,           \* shard contents when the last operation was called
    saved,         \* latest content passed to saveMany for each id
    sq,            \* instance of the search-merge specification
    lruSt,         \* an LRU on its own, with the calls made on it
    hrSt,          \* HashRing instances on their own
    arSt,          \* the shard files autoRebalance looks at, and its calls
    gsSt,          \* a manager with concurrent callers of getShard
    rxSt,          \* DocumentService.reindex calls and what they did
    cgSt,          \* a chat graph and the invocations of it
    soSt           \* callWithStructuredOutput calls and what they did

vars == << numOfShards, ring, cacheMax, cache, heap, files, inflight, pc, op,
           tasks, batch, outcome, result, last, ioCount, pre, saved, sq, lruSt, hrSt, arSt, gsSt, rxSt, cgSt, soSt >>

mgrVars == << numOfShards, ring, cacheMax, cache, heap, files, inflight >>

\* the sharded store and the calls on it
storeVars == << numOfShards, ring, cacheMax, cache, heap, files, inflight, pc,
                op, tasks, batch, outcome, result, last, ioCount, pre, saved >>

NoFile == [exists |-> FALSE, data |-> EmptyDb]
FileOf(db) == [exists |-> TRUE, data |-> db]

NoTask == [pc |-> "none", h |-> 0]
NoTasks == [s \in ShardIdx |-> NoTask]
NoOp == [n |-> 0, cur |-> 0, i |-> 0, allIds |-> << >>, moved |-> << >>]
NoSq == [place |-> << >>, k |-> 0, fetchK |-> 0, lambda |-> 0, limit |-> 0,
         res |-> << >>, done |-> FALSE]
NoLru == << >>
NoHr == << >>
NoAr == << >>
NoGs == << >>
NoRx == << >>
NoCg == << >>
NoSo == << >>

\* the node names "0" .. "n-1"
NodeNames(n) == { nodeName(i) : i \in 0 .. (n - 1) }

\* ------------------------------------------------------------ the heap
\* a fresh handle
Alloc(hp) == CHOOSE h \in 1 .. (Cardinality(DOMAIN hp) + 1) :
                 /\ h \notin DOMAIN hp
                 /\ \A g \in 1 .. (h - 1) : g \in DOMAIN hp

HeapPut(hp, h, db) == [g \in (DOMAIN hp) \cup {h} |-> IF g = h THEN db ELSE hp[g]]

RECURSIVE TaskHandles(_, _, _)
\* the handles only tasks hold, in shard order
TaskHandles(map, ts, s) ==
    IF s \notin ShardIdx THEN << >>
    ELSE (IF ts[s].h # 0 /\ ts[s].h \notin LruVals(map) THEN << ts[s].h >> ELSE << >>)
         \o TaskHandles(map, ts, s + 1)

\* Handles no cache entry and no task refers to are dropped, and the live
\* ones are numbered in the order cache, tasks: the numbers carry no meaning,
\* only the identity of a handle does.
Norm(hp, map, ts) ==
    LET live == [i \in 1 .. Len(map) |-> map[i].v] \o TaskHandles(map, ts, 0)
        new(h) == IF h = 0 THEN 0 ELSE CHOOSE i \in 1 .. Len(live) : live[i] = h
    IN  [heap  |-> [i \in 1 .. Len(live) |-> hp[live[i]]],
         cache |-> [i \in 1 .. Len(map) |-> [k |-> map[i].k, v |-> new(map[i].v)]],
         tasks |-> [s \in ShardIdx |-> [pc |-> ts[s].pc, h |-> new(ts[s].h)]]]

\* -------------------------------------------------- ShardManager primitives
\* The store a primitive works on: st = [cache, heap, files, io, ok] with
\* io the number of file writes and deletes and ok FALSE once a call threw.

\* persistShard: serialize the handle and write it to the file of shardIndex
persistShard(st, h, shardIndex) ==
    [st EXCEPT !.files[shardIndex] = FileOf(st.heap[h]), !.io = @ + 1]

\* setShard awaited: cache.set, the evicted handle is persisted before the
\* call returns
setShard(st, max, h, shardIndex) ==
    LET r  == LruSet(st.cache, max, shardIndex, h)
        s1 == [st EXCEPT !.cache = r.map]
    IN  IF r.evicted THEN persistShard(s1, r.ev, r.ek) ELSE s1

\* a read that gives an empty shard when the file does not exist
FileReadableAlways(fs, idx) == TRUE

\* await this.file.readBinary(filePath) resolves: the file exists
FileReadable(fs, idx) == fs[idx].exists

\* a getShard that creates an empty instance on a miss instead of reading
\* the shard's file
getShardFresh(st, max, idx) ==
    LET g == LruGet(st.cache, idx)
    IN  IF g.hit THEN [st |-> [st EXCEPT !.cache = g.map], h |-> g.v]
        ELSE IF ~ st.files[idx].exists
             THEN [st |-> [st EXCEPT !.ok = FALSE], h |-> 0]
             ELSE LET h  == Alloc(st.heap)
                      s1 == [st EXCEPT !.heap = HeapPut(st.heap, h, createBasedOnLangage)]
                  IN  [st |-> setShard(s1, max, h, idx), h |-> h]

\* getShard: [st, h]; st.ok is FALSE when the file cannot be read
getShard(st, max, idx) ==
    LET g == LruGet(st.cache, idx)
    IN  IF g.hit THEN [st |-> [st EXCEPT !.cache = g.map], h |-> g.v]
        ELSE IF ~ FileReadable(st.files, idx)
             THEN [st |-> [st EXCEPT !.ok = FALSE], h |-> 0]
             ELSE LET h  == Alloc(st.heap)
                      s1 == [st EXCEPT !.heap = HeapPut(st.heap, h, st.files[idx].data)]
                  IN  [st |-> setShard(s1, max, h, idx), h |-> h]

\* the store of the current state
Store == [cache |-> cache, heap |-> heap, files |-> files, io |-> ioCount,
          ok |-> TRUE]

\* ShardManager.getNode on the manager's ring
mgrGetNode(r, id) == NodeTable[Cardinality(r)][id]

\* the content of shard i as a reader of the store sees it: the resident
\* handle, else the file
ShardView(map, hp, fs, i) ==
    IF LruHas(map, i) THEN hp[map[LruIndex(map, i)].v]
    ELSE IF fs[i].exists THEN fs[i].data ELSE EmptyDb

Snapshot == [i \in ShardIdx |-> ShardView(cache, heap, files, i)]

\* ------------------------------------------------------- init: create, load
RECURSIVE createShards(_, _, _, _)
\* createShards: a fresh instance per shard, cached, then persisted
createShards(st, max, n, i) ==
    IF i >= n THEN st
    ELSE LET h  == Alloc(st.heap)
             s1 == [st EXCEPT !.heap = HeapPut(st.heap, h, createBasedOnLangage)]
             s2 == persistShard(setShard(s1, max, h, i), h, i)
         IN  IF s2.io < 0 THEN s2 ELSE createShards(s2, max, n, i + 1)

RECURSIVE CountFiles(_, _)
CountFiles(fs, i) ==
    IF i \in ShardIdx /\ fs[i].exists THEN 1 + CountFiles(fs, i + 1) ELSE 0

\* detectShardCount: consecutive shard files from vectorstore-1, at least 1
detectShardCount(fs) ==
    LET shardCount == CountFiles(fs, 0)
    IN  IF shardCount > 1 THEN shardCount ELSE 1

RECURSIVE loadShards(_, _, _, _)
\* loadShards: every shard with a file is restored, cached, then persisted
loadShards(st, max, n, i) ==
    IF i >= n THEN st
    ELSE IF ~ st.files[i].exists THEN loadShards(st, max, n, i + 1)
    ELSE LET h  == Alloc(st.heap)
             s1 == [st EXCEPT !.heap = HeapPut(st.heap, h, st.files[i].data)]
             s2 == persistShard(setShard(s1, max, h, i), h, i)
         IN  IF s2.io < 0 THEN s2 ELSE loadShards(s2, max, n, i + 1)

EmptyStore(fs) == [cache |-> << >>, heap |-> << >>, files |-> fs, io |-> 0,
                   ok |-> TRUE]

NoLast == [op |-> "init", n |-> 0, from |-> 0, k |-> 0, fetchK |-> 0, anon |-> 0, dirty |-> 0, auto |-> FALSE]

\* ShardManager.init on a directory that does not exist: ShardManager.create
InitStore ==
    LET st == createShards(EmptyStore([i \in ShardIdx |-> NoFile]),
                           DefaultCacheSize, DefaultShards, 0)
    IN  /\ numOfShards = DefaultShards
        /\ ring = NodeNames(DefaultShards)
        /\ cacheMax = DefaultCacheSize
        /\ cache = st.cache
        /\ heap = st.heap
        /\ files = st.files
        /\ inflight = {}
        /\ pc = "idle"
        /\ op = NoOp
        /\ tasks = NoTasks
        /\ batch = EmptyDb
        /\ outcome = "resolved"
        /\ result = << >>
        /\ last = NoLast
        /\ ioCount = 0
        /\ pre = [i \in ShardIdx |-> EmptyDb]
        /\ saved = EmptyDb

Init == InitStore /\ sq = NoSq /\ lruSt = NoLru /\ hrSt = NoHr /\ arSt = NoAr /\ gsSt = NoGs /\ rxSt = NoRx /\ cgSt = NoCg /\ soSt = NoSo

Quiet == pc = "idle" /\ inflight = {}

\* The plugin is restarted: ShardManager.init on the existing directory,
\* that is ShardManager.load with a new manager and a new cache.
Restart ==
    /\ Quiet
    /\ LET n  == detectShardCount(files)
           st == loadShards(EmptyStore(files), DefaultCacheSize, n, 0)
       IN  /\ numOfShards' = n
           /\ ring' = NodeNames(n)
           /\ cacheMax' = DefaultCacheSize
           /\ cache' = Norm(st.heap, st.cache, NoTasks).cache
           /\ heap' = Norm(st.heap, st.cache, NoTasks).heap
           /\ files' = st.files
           /\ ioCount' = st.io
    /\ last' = NoLast
    /\ outcome' = "resolved"
    /\ result' = << >>
    /\ tasks' = NoTasks
    /\ batch' = EmptyDb
    /\ UNCHANGED << inflight, pc, op, pre, saved, sq, lruSt, hrSt, arSt, gsSt, rxSt, cgSt, soSt >>

\* ---------------------------------------------------------------- rebalance
RECURSIVE DiffLoop(_, _, _, _)
DiffLoop(oldN, newN, allIds, i) ==
    IF i > Len(allIds) THEN << >>
    ELSE LET id   == allIds[i]
             from == NodeTable[oldN][id]
             to   == getNode(RingOf[newN], id)
         IN  (IF from # to THEN << [id |-> id, from |-> from, to |-> to] >>
              ELSE << >>) \o DiffLoop(oldN, newN, allIds, i + 1)

\* HashRing.diffMovedIds on the manager's ring r
diffMovedIds(r, newNumShards, allIds) ==
    DiffLoop(Cardinality(r), newNumShards, allIds, 1)

\* a rebalance without the early return
RebalanceIsNoopNever(newNumShards, currentNumShards) == FALSE

\* if (newNumShards === currentNumShards) return
RebalanceIsNoop(newNumShards, currentNumShards) == newNumShards = currentNumShards

\* rebalance(n) is called, by autoRebalance or not
RebalanceStart(n, auto) ==
    /\ Quiet
    /\ last' = [op |-> "rebalance", n |-> n, from |-> numOfShards, k |-> 0,
                fetchK |-> 0, anon |-> 0, dirty |-> 0, auto |-> auto]
    /\ pre' = Snapshot
    /\ ioCount' = 0
    /\ result' = << >>
    /\ IF RebalanceIsNoop(n, numOfShards)
       THEN /\ outcome' = "resolved"
            /\ UNCHANGED << pc, op >>
       ELSE /\ outcome' = "pending"
            /\ pc' = "rb_collect"
            /\ op' = [n |-> n, cur |-> numOfShards, i |-> 0, allIds |-> << >>,
                      moved |-> << >>]
    /\ tasks' = NoTasks
    /\ batch' = EmptyDb
    /\ UNCHANGED << mgrVars, saved, sq, lruSt, hrSt, arSt, gsSt, rxSt, cgSt, soSt >>

RebalanceCall(n) == RebalanceStart(n, FALSE)

\* the store st becomes the state; the rebalance goes on at position p
RbGoto(st, p, o) ==
    /\ cache' = Norm(st.heap, st.cache, NoTasks).cache
    /\ heap' = Norm(st.heap, st.cache, NoTasks).heap
    /\ files' = st.files
    /\ ioCount' = st.io
    /\ pc' = p
    /\ op' = o
    /\ outcome' = IF p = "idle" THEN "rejected" ELSE outcome
    /\ UNCHANGED << numOfShards, ring, cacheMax, tasks, batch, result, last,
                    pre, saved, sq, lruSt, hrSt, arSt, gsSt, rxSt, cgSt, soSt >>

\* a call inside rebalance threw: the promise rejects where it stands
RbReject(st) == RbGoto(st, "idle", NoOp) /\ UNCHANGED inflight

\* a rebalance that installs the ring while documents are still to be moved
AfterExpandInstall(o) == "rb_install"

\* the moved list is worked off, then the resident shards are persisted
AfterExpand(o) == IF o.moved = << >> THEN "rb_persist" ELSE "rb_move"

\* allIds = allIds.concat(ids) for the next current shard
RbCollect ==
    /\ pc = "rb_collect"
    /\ LET r == getShard(Store, cacheMax, op.i)
       IN  IF ~ r.st.ok THEN RbReject(r.st)
           ELSE LET ids == op.allIds \o internalIdToId(r.st.heap[r.h])
                    o1  == [op EXCEPT !.i = op.i + 1, !.allIds = ids]
                    o2  == [o1 EXCEPT !.moved = diffMovedIds(ring, op.n, ids)]
                IN  /\ UNCHANGED inflight
                    /\ IF op.i + 1 < op.cur THEN RbGoto(r.st, "rb_collect", o1)
                       ELSE IF op.n > op.cur
                            THEN RbGoto(r.st, "rb_expand1", o2)
                            ELSE RbGoto(r.st, AfterExpand(o2), o2)

\* first index the un-awaited loop creates a shard for
ExpandFrom(map, currentNumShards) == Len(map)

RECURSIVE ExpandLoop(_, _, _, _, _)
\* this.setShard(db, i) without await: the write of an evicted handle is
\* left in flight; x = [st, fly]
ExpandLoop(x, max, n, i, dummy) ==
    IF i >= n THEN x
    ELSE LET h  == Alloc(x.st.heap)
             s1 == [x.st EXCEPT !.heap = HeapPut(x.st.heap, h, createBasedOnLangage)]
             r  == LruSet(s1.cache, max, i, h)
             s2 == [s1 EXCEPT !.cache = r.map]
             f2 == IF r.evicted
                   THEN x.fly \cup { [idx |-> r.ek, data |-> s1.heap[r.ev]] }
                   ELSE x.fly
         IN  IF Len(s2.cache) < 0 THEN x
             ELSE ExpandLoop([st |-> s2, fly |-> f2], max, n, i + 1, dummy)

RbExpand1 ==
    /\ pc = "rb_expand1"
    /\ LET x == ExpandLoop([st |-> Store, fly |-> inflight], cacheMax, op.n,
                           ExpandFrom(cache, op.cur), 0)
       IN  /\ inflight' = x.fly
           /\ RbGoto(x.st, "rb_expand2", [op EXCEPT !.i = op.cur])

\* a new shard i >= currentNumShards is created, cached and persisted
RbExpand2 ==
    /\ pc = "rb_expand2"
    /\ LET h  == Alloc(heap)
           s1 == [Store EXCEPT !.heap = HeapPut(heap, h, createBasedOnLangage)]
           s2 == persistShard(setShard(s1, cacheMax, h, op.i), h, op.i)
           o1 == [op EXCEPT !.i = op.i + 1]
       IN  RbGoto(s2, IF op.i + 1 < op.n THEN "rb_expand2" ELSE AfterExpand(o1), o1)
    /\ UNCHANGED inflight

\* moveDocument: [st, threw]
moveDocument(st, max, id, fromIdx, toIdx) ==
    LET r1 == getShard(st, max, fromIdx)
    IN  IF ~ r1.st.ok THEN [st |-> r1.st, threw |-> TRUE]
        ELSE LET r2 == getShard(r1.st, max, toIdx)
             IN  IF ~ r2.st.ok THEN [st |-> r2.st, threw |-> TRUE]
                 ELSE LET s2  == r2.st
                          doc == getByID(s2.heap[r1.h], id)
                      IN  IF doc # Absent /\ InsertThrows(s2.heap[r2.h], id)
                          THEN [st |-> s2, threw |-> TRUE]
                          ELSE LET hp1 == IF doc # Absent
                                          THEN [s2.heap EXCEPT ![r2.h] = insert(@, id, doc)]
                                          ELSE s2.heap
                                   hp2 == [hp1 EXCEPT ![r1.h] = remove(@, id)]
                               IN  [st |-> [s2 EXCEPT !.heap = hp2], threw |-> FALSE]

\* the next document of the moved list is relocated
RbMove ==
    /\ pc = "rb_move"
    /\ LET m  == Head(op.moved)
           r  == moveDocument(Store, cacheMax, m.id, parseInt(m.from), parseInt(m.to))
           o1 == [op EXCEPT !.moved = Tail(op.moved)]
       IN  IF r.threw THEN RbReject(r.st)
           ELSE /\ RbGoto(r.st, AfterExpand(o1), o1)
                /\ UNCHANGED inflight

RECURSIVE PersistLoop(_, _, _)
\* every shard below newNumShards resident in the cache is persisted
PersistLoop(st, n, i) ==
    IF i >= n THEN st
    ELSE LET g == LruGet(st.cache, i)
         IN  IF g.hit
             THEN PersistLoop(persistShard([st EXCEPT !.cache = g.map], g.v, i), n, i + 1)
             ELSE PersistLoop(st, n, i + 1)

RbPersist ==
    /\ pc = "rb_persist"
    /\ RbGoto(PersistLoop(Store, op.n, 0),
              IF op.n < op.cur THEN "rb_shrink" ELSE "rb_install", op)
    /\ UNCHANGED inflight

\* a removal loop that starts one index late
RemoveOldLate(st, n, cur) ==
    LET gone == { i \in ShardIdx : i > n /\ i < cur /\ st.files[i].exists }
    IN  [st EXCEPT !.files = [i \in ShardIdx |-> IF i \in gone THEN NoFile ELSE st.files[i]],
                   !.io = @ + Cardinality(gone)]

\* the files of the shards [newNumShards, currentNumShards) are removed
RemoveOld(st, n, cur) ==
    LET gone == { i \in ShardIdx : i >= n /\ i < cur /\ st.files[i].exists }
    IN  [st EXCEPT !.files = [i \in ShardIdx |-> IF i \in gone THEN NoFile ELSE st.files[i]],
                   !.io = @ + Cardinality(gone)]

RbShrink ==
    /\ pc = "rb_shrink"
    /\ RbGoto(RemoveOld(Store, op.n, op.cur), "rb_install", op)
    /\ UNCHANGED inflight

RECURSIVE CopyCache(_, _, _, _)
\* the new LRU of capacity n takes the resident handles of the shards below n;
\* x = [old, new, fly, heap]
CopyCache(x, n, i, dummy) ==
    IF i >= n THEN x
    ELSE LET g == LruGet(x.old, i)
         IN  IF ~ g.hit THEN CopyCache(x, n, i + 1, dummy)
             ELSE LET r == LruSet(x.new, n, i, g.v)
                  IN  CopyCache([old  |-> g.map,
                                 new  |-> r.map,
                                 fly  |-> IF r.evicted
                                          THEN x.fly \cup { [idx |-> r.ek, data |-> x.heap[r.ev]] }
                                          ELSE x.fly,
                                 heap |-> x.heap], n, i + 1, dummy)

\* a rebalance that keeps the capacity the constructor gave the cache
NewCacheSizeKept(newNumShards) == DefaultCacheSize

\* new LRU<number, Orama<T>>(newNumShards)
NewCacheSize(newNumShards) == newNumShards

\* the new ring, shard count and cache are installed
RbInstall ==
    /\ pc = "rb_install"
    /\ LET x == CopyCache([old |-> cache, new |-> << >>, fly |-> inflight,
                           heap |-> heap], op.n, 0, 0)
       IN  /\ ring' = NodeNames(op.n)
           /\ numOfShards' = op.n
           /\ cacheMax' = NewCacheSize(op.n)
           /\ cache' = Norm(heap, x.new, NoTasks).cache
           /\ heap' = Norm(heap, x.new, NoTasks).heap
           /\ inflight' = x.fly
    /\ pc' = "idle"
    /\ op' = NoOp
    /\ outcome' = "resolved"
    /\ UNCHANGED << files, tasks, batch, result, last, ioCount, pre, saved, sq, lruSt, hrSt, arSt, gsSt, rxSt, cgSt, soSt >>

\* a persistShard nobody awaited completes its file write
WriteLands ==
    /\ inflight # {}
    /\ \E w \in inflight :
          /\ files' = [files EXCEPT ![w.idx] = FileOf(w.data)]
          /\ inflight' = inflight \ {w}
    /\ ioCount' = ioCount + 1
    /\ UNCHANGED << numOfShards, ring, cacheMax, cache, heap, pc, op, tasks,
                    batch, outcome, result, last, pre, saved, sq, lruSt, hrSt, arSt, gsSt, rxSt, cgSt, soSt >>

\* -------------------------------------------------------------------- reset
\* reset on the store st of a manager with n shards: the files of the shards
\* 0 .. n-1 are removed, the cache is cleared, an empty shard 0 is cached
\* and persisted
reset(st, max, n) ==
    LET s0 == RemoveOld(st, 0, n)
        s1 == [s0 EXCEPT !.cache = LruClear(s0.cache)]
        h  == Alloc(s1.heap)
        s2 == [s1 EXCEPT !.heap = HeapPut(s1.heap, h, createBasedOnLangage)]
    IN  persistShard(setShard(s2, max, h, 0), h, 0)

\* the resident shards whose instance differs from their file
Unsaved ==
    { i \in LruKeys(cache) :
          ~ files[i].exists \/ heap[cache[LruIndex(cache, i)].v] # files[i].data }

ResetCall ==
    /\ Quiet
    /\ LET st == reset([Store EXCEPT !.io = 0], cacheMax, numOfShards)
       IN  /\ cache' = Norm(st.heap, st.cache, NoTasks).cache
           /\ heap' = Norm(st.heap, st.cache, NoTasks).heap
           /\ files' = st.files
           /\ ioCount' = st.io
    /\ numOfShards' = 1
    /\ ring' = NodeNames(1)
    /\ last' = [op |-> "reset", n |-> 1, from |-> numOfShards, k |-> 0,
                fetchK |-> 0, anon |-> 0, dirty |-> Cardinality(Unsaved),
                auto |-> FALSE]
    /\ outcome' = "resolved"
    /\ result' = << >>
    /\ tasks' = NoTasks
    /\ batch' = EmptyDb
    /\ saved' = EmptyDb
    /\ UNCHANGED << cacheMax, inflight, pc, op, pre, sq, lruSt, hrSt, arSt, gsSt, rxSt, cgSt, soSt >>

\* -------------------------------------------------------------------- search
NoFetchK == 0
NoLambda == 0

\* similarity, in hundredths, of a stored document to the fixed query vector
Score(id, content) == 60 + id[1] - 96 + 13 * (content - 1)

\* limit: fetchK handed to Orama's search, which applies its default when
\* the limit is undefined
PerShardLimit(k, fetchK) == IF fetchK = NoFetchK THEN OramaDefaultLimit ELSE fetchK

\* similarity: lambda ?? 0.6
Similarity(lambda) == IF lambda = NoLambda THEN DefaultSimilarity ELSE lambda

RECURSIVE SortHits(_)
\* a set of hits by descending score
SortHits(H) ==
    IF H = {} THEN << >>
    ELSE LET m == CHOOSE x \in H : \A y \in H : x.score >= y.score
         IN  << m >> \o SortHits(H \ {m})

Take(seq, n) == SubSeq(seq, 1, IF n < Len(seq) THEN n ELSE Len(seq))

\* Orama search in vector mode on one shard: the hits at or above the
\* similarity, best first, at most limit of them
OramaSearch(H, limit, similarity) ==
    Take(SortHits({ x \in H : x.score >= similarity }), limit)

RECURSIVE InsertDesc(_, _)
InsertDesc(sorted, x) ==
    IF sorted = << >> THEN << x >>
    ELSE IF Head(sorted).score >= x.score
         THEN << Head(sorted) >> \o InsertDesc(Tail(sorted), x)
         ELSE << x >> \o sorted

RECURSIVE StableSortDesc(_, _)
\* results.sort((a, b) => b.score - a.score): stable
StableSortDesc(seq, i) ==
    IF i > Len(seq) THEN << >>
    ELSE InsertDesc(StableSortDesc(seq, i + 1), seq[i])

\* results.sort(...).slice(0, k)
MergeHits(results, k) == Take(StableSortDesc(results, 1), k)

HitsOfDb(db) == { [id |-> d, score |-> Score(d, db[d])] : d \in IdsOf(db) }

RECURSIVE SearchLoop(_, _, _, _, _, _)
\* x = [st, results]: every shard is loaded and queried in index order
SearchLoop(x, max, n, i, limit, similarity) ==
    IF i >= n \/ ~ x.st.ok THEN x
    ELSE LET r == getShard(x.st, max, i)
         IN  IF ~ r.st.ok THEN [st |-> r.st, results |-> x.results]
             ELSE SearchLoop([st |-> r.st,
                              results |-> x.results \o
                                  OramaSearch(HitsOfDb(r.st.heap[r.h]), limit, similarity)],
                             max, n, i + 1, limit, similarity)

\* DocumentRepository.search(query, {k, fetchK})
\* the search itself: every shard below the shard count is loaded and
\* queried, the hits are merged
SearchRun(k, fetchK) ==
    /\ LET x == SearchLoop([st |-> [Store EXCEPT !.io = 0], results |-> << >>],
                           cacheMax, numOfShards, 0,
                           PerShardLimit(k, fetchK), Similarity(NoLambda))
       IN  /\ cache' = Norm(x.st.heap, x.st.cache, NoTasks).cache
           /\ heap' = Norm(x.st.heap, x.st.cache, NoTasks).heap
           /\ files' = x.st.files
           /\ ioCount' = x.st.io
           /\ outcome' = IF x.st.ok THEN "resolved" ELSE "rejected"
           /\ result' = IF x.st.ok THEN MergeHits(x.results, k) ELSE << >>
    /\ last' = [op |-> "search", n |-> 0, from |-> 0, k |-> k, fetchK |-> fetchK,
                anon |-> 0, dirty |-> 0, auto |-> FALSE]
    /\ tasks' = NoTasks
    /\ batch' = EmptyDb
    /\ UNCHANGED << numOfShards, ring, cacheMax, inflight, pc, op, pre, saved, sq, lruSt, hrSt, arSt, gsSt, rxSt, cgSt, soSt >>

SearchCall(k, fetchK) == Quiet /\ SearchRun(k, fetchK)

\* the positions at which a rebalance in progress is suspended
RbPositions == { "rb_collect", "rb_expand1", "rb_expand2", "rb_move", "rb_persist",
                 "rb_shrink", "rb_install" }

\* a search called while a rebalance is suspended at one of its awaits
SearchMid(k, fetchK) == pc \in RbPositions /\ SearchRun(k, fetchK)

\* ------------------------------------------------------------------ saveMany
Batches(maxDocs) ==
    { b \in [DocIds -> (0 .. MaxContent)] : Cardinality(IdsOf(b)) <= maxDocs }

\* the batches of the full specification: first versions of "a", "b", "l"
FirstBatches ==
    { b \in Batches(MaxBatch) :
          /\ IdsOf(b) \subseteq { << 97 >>, << 98 >>, << 108 >> }
          /\ \A d \in DocIds : b[d] <= 1 }

\* docsByPartition[shardKey]: the documents of the batch whose id the ring
\* routes to the shard
Group(b, r, s) ==
    [d \in DocIds |-> IF b[d] # Absent /\ parseInt(mgrGetNode(r, d)) = s
                      THEN b[d] ELSE Absent]

\* tasks that go on with an empty group
GroupSkippedNever(docs) == FALSE

\* if (docs.length === 0) return
GroupSkipped(docs) == IdsOf(docs) = {}

RECURSIVE StartTasks(_, _, _, _, _)
\* the synchronous start of every per-shard task, in key order: an empty
\* group returns, the others call getShard, which looks the cache up;
\* x = [cache, tasks]
StartTasks(x, b, r, n, s) ==
    IF s >= n THEN x
    ELSE IF GroupSkipped(Group(b, r, s)) THEN StartTasks(x, b, r, n, s + 1)
    ELSE LET g == LruGet(x.cache, s)
             t == IF g.hit THEN [pc |-> "upd", h |-> g.v] ELSE [pc |-> "load", h |-> 0]
         IN  StartTasks([cache |-> g.map, tasks |-> [x.tasks EXCEPT ![s] = t]],
                        b, r, n, s + 1)

Running(ts) == \E s \in ShardIdx : ts[s].pc \in {"load", "upd"}

\* Promise.allSettled in place of Promise.all: failures are swallowed
SaveOutcomeSettled(ts) ==
    IF Running(ts) THEN "pending" ELSE "resolved"

\* await Promise.all(insertPromises)
SaveOutcome(ts) ==
    IF \E s \in ShardIdx : ts[s].pc = "failed" THEN "rejected"
    ELSE IF Running(ts) THEN "pending"
    ELSE "resolved"

\* saveMany of the documents b together with anon documents that carry no
\* id: the partition loop passes those over
SaveDocs(b, anon) ==
    /\ Quiet
    /\ last' = [op |-> "saveMany", n |-> 0, from |-> 0, k |-> 0, fetchK |-> 0,
                anon |-> anon, dirty |-> 0, auto |-> FALSE]
    /\ ioCount' = 0
    /\ result' = << >>
    /\ batch' = b
    /\ saved' = [d \in DocIds |-> IF b[d] # Absent THEN b[d] ELSE saved[d]]
    /\ LET x == StartTasks([cache |-> cache, tasks |-> NoTasks], b, ring,
                           numOfShards, 0)
       IN  /\ cache' = Norm(heap, x.cache, x.tasks).cache
           /\ heap' = Norm(heap, x.cache, x.tasks).heap
           /\ tasks' = Norm(heap, x.cache, x.tasks).tasks
           /\ pc' = IF Running(x.tasks) THEN "save" ELSE "idle"
           /\ outcome' = SaveOutcome(x.tasks)
    /\ UNCHANGED << numOfShards, ring, cacheMax, files, inflight, op, pre, sq, lruSt, hrSt, arSt, gsSt, rxSt, cgSt, soSt >>

\* saveMany of documents that all carry an id
SaveCall(b) == SaveDocs(b, 0)

\* the store st and the tasks ts become the state of the saveMany
SaveGoto(st, ts) ==
    /\ cache' = Norm(st.heap, st.cache, ts).cache
    /\ heap' = Norm(st.heap, st.cache, ts).heap
    /\ files' = st.files
    /\ ioCount' = st.io
    /\ tasks' = Norm(st.heap, st.cache, ts).tasks
    /\ pc' = IF Running(ts) THEN "save" ELSE "idle"
    /\ outcome' = SaveOutcome(ts)
    /\ UNCHANGED << numOfShards, ring, cacheMax, inflight, op, batch, result,
                    last, pre, saved, sq, lruSt, hrSt, arSt, gsSt, rxSt, cgSt, soSt >>

\* getShard of a task whose shard was not resident: the file is read, the
\* handle cached, an evicted handle written back
TaskLoad(s) ==
    /\ pc = "save"
    /\ tasks[s].pc = "load"
    /\ LET r == getShard(Store, cacheMax, s)
       IN  IF ~ r.st.ok
           THEN SaveGoto(r.st, [tasks EXCEPT ![s] = [pc |-> "failed", h |-> 0]])
           ELSE SaveGoto(r.st, [tasks EXCEPT ![s] = [pc |-> "upd", h |-> r.h]])

\* an upsert that skips the documents whose id the shard already holds
UpsertKeepOld(db, docs) ==
    [d \in DocIds |-> IF db[d] # Absent THEN db[d] ELSE docs[d]]

\* existingDocIds, updateMultiple, persistShard of one task
Upsert(db, docs) ==
    LET existingDocIds == { d \in IdsOf(docs) : d \in IdsOf(db) }
    IN  updateMultiple(db, existingDocIds, docs)

TaskUpd(s) ==
    /\ pc = "save"
    /\ tasks[s].pc = "upd"
    /\ LET h  == tasks[s].h
           s1 == [Store EXCEPT !.heap[h] = Upsert(@, Group(batch, ring, s))]
       IN  SaveGoto(persistShard(s1, h, s),
                    [tasks EXCEPT ![s] = [pc |-> "done", h |-> 0]])

RECURSIVE SaveAllTasks(_, _, _, _, _, _)
\* every per-shard task of a saveMany of the batch b run to its end, in key
\* order: getShard, updateMultiple, persistShard; st.ok is FALSE when a
\* shard could not be read
SaveAllTasks(st, max, b, r, n, s) ==
    IF s >= n THEN st
    ELSE IF GroupSkipped(Group(b, r, s)) THEN SaveAllTasks(st, max, b, r, n, s + 1)
    ELSE LET g == getShard(st, max, s)
         IN  IF ~ g.st.ok THEN g.st
             ELSE LET s1 == [g.st EXCEPT !.heap[g.h] = Upsert(@, Group(b, r, s))]
                  IN  SaveAllTasks(persistShard(s1, g.h, s), max, b, r, n, s + 1)

\* a saveMany called while a rebalance is suspended at one of its awaits;
\* it routes by the ring and the shard count installed at that moment and
\* resolves before the rebalance goes on
SaveMid(b) ==
    /\ pc \in RbPositions
    /\ batch = EmptyDb
    /\ b # EmptyDb
    /\ LET st == SaveAllTasks(Store, cacheMax, b, ring, numOfShards, 0)
       IN  /\ st.ok
           /\ cache' = Norm(st.heap, st.cache, NoTasks).cache
           /\ heap' = Norm(st.heap, st.cache, NoTasks).heap
           /\ files' = st.files
           /\ ioCount' = st.io
    /\ batch' = b
    /\ saved' = [d \in DocIds |-> IF b[d] # Absent THEN b[d] ELSE saved[d]]
    /\ UNCHANGED << numOfShards, ring, cacheMax, inflight, pc, op, tasks, outcome,
                    result, last, pre, sq, lruSt, hrSt, arSt, gsSt, rxSt, cgSt, soSt >>

\* the file adapter fails the read of a task's getShard
TaskLoadFail(s) ==
    /\ pc = "save"
    /\ tasks[s].pc = "load"
    /\ SaveGoto(Store, [tasks EXCEPT ![s] = [pc |-> "failed", h |-> 0]])

\* updateMultiple of a task throws (a document the schema rejects)
TaskUpsertFail(s) ==
    /\ pc = "save"
    /\ tasks[s].pc = "upd"
    /\ SaveGoto(Store, [tasks EXCEPT ![s] = [pc |-> "failed", h |-> 0]])

\* the file adapter fails the write of a task's persistShard
TaskPersistFail(s) ==
    /\ pc = "save"
    /\ tasks[s].pc = "upd"
    /\ LET h  == tasks[s].h
           s1 == [Store EXCEPT !.heap[h] = Upsert(@, Group(batch, ring, s))]
       IN  SaveGoto(s1, [tasks EXCEPT ![s] = [pc |-> "failed", h |-> 0]])

\* ------------------------------------------- the search-merge on its own
\* The documents 1 .. MaxSearchDocs have pairwise distinct similarities to
\* the query; document 1 stays below the default similarity.
SearchDocs == 1 .. MaxSearchDocs
Sim(j) == 55 + 4 * j
SearchShards == 0 .. 1
SearchKs == { 1, 2, OramaDefaultLimit + 1 }

\* the hits of shard i under the placement place
HitsOfShard(place, i) ==
    { [id |-> j, score |-> Sim(j)] : j \in { x \in SearchDocs : place[x] = i } }

RECURSIVE ScatterGather(_, _, _, _)
\* the loop of DocumentRepository.search over the shards i, i+1, ...
ScatterGather(place, i, limit, similarity) ==
    IF i \notin SearchShards THEN << >>
    ELSE OramaSearch(HitsOfShard(place, i), limit, similarity)
         \o ScatterGather(place, i + 1, limit, similarity)

\* a caller either leaves fetchK out or passes one that is at least k
InitSq ==
    /\ InitStore
    /\ lruSt = NoLru
    /\ hrSt = NoHr
    /\ arSt = NoAr /\ gsSt = NoGs /\ rxSt = NoRx /\ cgSt = NoCg /\ soSt = NoSo
    /\ \E place \in [SearchDocs -> SearchShards], k \in SearchKs,
          fetchK \in {NoFetchK, 1, 2, OramaDefaultLimit + 2} :
          /\ fetchK = NoFetchK \/ fetchK >= k
          /\ sq = [place |-> place, k |-> k, fetchK |-> fetchK, lambda |-> NoLambda,
                   limit |-> 0, res |-> << >>, done |-> FALSE]

\* DocumentRepository.search on the placement of sq
SqSearch ==
    /\ ~ sq.done
    /\ LET limit == PerShardLimit(sq.k, sq.fetchK)
           hits  == ScatterGather(sq.place, 0, limit, Similarity(sq.lambda))
       IN  sq' = [sq EXCEPT !.limit = limit, !.res = MergeHits(hits, sq.k),
                            !.done = TRUE]
    /\ UNCHANGED << numOfShards, ring, cacheMax, cache, heap, files, inflight,
                    pc, op, tasks, batch, outcome, result, last, ioCount, pre,
                    saved, lruSt, hrSt, arSt, gsSt, rxSt, cgSt, soSt >>

\* ------------------------------------------------ autoRebalance on its own
\* The shard files autoRebalance looks at are described by the shard count
\* c, the number of the c files that are missing and the total size, in MB,
\* of those that exist.

\* a scale-out without the cap
AutoTargetNoCap(c, existingShardCount, totalSize) ==
    IF existingShardCount = 0 THEN c
    ELSE IF totalSize > MAX_SHARD_SIZE_MB * existingShardCount THEN c * 2
    ELSE IF totalSize < MIN_SHARD_SIZE_MB * existingShardCount /\ c > MIN_SHARDS
         THEN (IF MIN_SHARDS > c \div 2 THEN MIN_SHARDS ELSE c \div 2)
    ELSE c

\* newNumShards of autoRebalance; avgShardSizeMB > X is
\* totalSize > X * existingShardCount
AutoTarget(c, existingShardCount, totalSize) ==
    IF existingShardCount = 0 THEN c
    ELSE IF totalSize > MAX_SHARD_SIZE_MB * existingShardCount
         THEN (IF MAX_SHARDS < c * 2 THEN MAX_SHARDS ELSE c * 2)
    ELSE IF totalSize < MIN_SHARD_SIZE_MB * existingShardCount /\ c > MIN_SHARDS
         THEN (IF MIN_SHARDS > c \div 2 THEN MIN_SHARDS ELSE c \div 2)
    ELSE c

\* sizes, in MB, of one shard file
FileSizesMB == { 0, 10, 99, 100, 101, 300, 499, 500, 501, 550, 1100 }

InitAuto ==
    /\ InitStore
    /\ sq = NoSq
    /\ lruSt = NoLru
    /\ hrSt = NoHr
    /\ gsSt = NoGs
    /\ rxSt = NoRx /\ cgSt = NoCg /\ soSt = NoSo
    /\ \E c \in 1 .. MaxAutoShards, size \in FileSizesMB, extra \in 0 .. 1 :
          \E missing \in { 0, 1, c } :
              arSt = [c |-> c, c0 |-> c, missing |-> missing,
                      total |-> IF missing = c THEN 0 ELSE (c - missing) * size + extra,
                      from |-> [c |-> c, missing |-> missing, total |-> 0],
                      called |-> << >>, hist |-> << >>]

\* autoRebalance: the files are sized up, the target computed and rebalance
\* called when the target is not the current shard count.  rebalance to n
\* leaves n files that hold what the files held before; it may reject
\* instead, and change nothing, when a file is missing.
AutoRebalanceCall ==
    /\ arSt # NoAr
    /\ Len(arSt.hist) < MaxAutoCalls
    /\ LET existingShardCount == arSt.c - arSt.missing
           newNumShards == AutoTarget(arSt.c, existingShardCount, arSt.total)
           called == IF newNumShards # arSt.c THEN << newNumShards >> ELSE << >>
           from == [c |-> arSt.c, missing |-> arSt.missing, total |-> arSt.total]
       IN  \E rejects \in BOOLEAN :
              /\ rejects => (called # << >> /\ arSt.missing > 0)
              /\ arSt' = IF called = << >> \/ rejects
                         THEN [arSt EXCEPT !.from = from, !.called = called,
                                           !.hist = Append(@, arSt.c)]
                         ELSE [c |-> newNumShards, c0 |-> arSt.c0, missing |-> 0,
                               total |-> arSt.total,
                               from |-> from, called |-> called,
                               hist |-> Append(arSt.hist, newNumShards)]
    /\ UNCHANGED << storeVars, sq, lruSt, hrSt, gsSt, rxSt, cgSt, soSt >>

\* autoRebalance on the sharded store: the size of the shard files is an
\* input, the target is computed from it and rebalance called when the target
\* is not the current shard count
AutoCall ==
    \E size \in FileSizesMB :
        LET existingShardCount ==
                Cardinality({ i \in ShardIdx : i < numOfShards /\ files[i].exists })
            newNumShards ==
                AutoTarget(numOfShards, existingShardCount, existingShardCount * size)
        IN  /\ newNumShards <= MaxShards
            /\ RebalanceStart(newNumShards, TRUE)

\* autoRebalance called up to MaxAutoCalls times in a row
SpecAuto == InitAuto /\ [][AutoRebalanceCall]_vars

\* ------------------------------------------------- HashRings on their own
RingNodeNames == { nodeName(i) : i \in 0 .. (MaxRingNodes - 1) }

\* the replica counts a ring is constructed with
ReplicaCounts == (1 .. MaxReplicas) \cup { Replicas }

\* the keys looked up: the document ids and, for each node name, the key of
\* its first virtual node
RingKeys == DocIds \cup { VNodeKey(nd, 0) : nd \in RingNodeNames }

RECURSIVE KeySeq(_)
\* the keys of a set as an id list, by ascending hash
KeySeq(S) ==
    IF S = {} THEN << >>
    ELSE LET m == CHOOSE x \in S : \A y \in S : x = y \/ HashLt(fnv1a(x), fnv1a(y))
         IN  << m >> \o KeySeq(S \ {m})

RECURSIVE HrDiffLoop(_, _, _, _)
HrDiffLoop(hr, newRing, allIds, i) ==
    IF i > Len(allIds) THEN << >>
    ELSE LET id   == allIds[i]
             from == getNode(hr, id)
             to   == getNode(newRing, id)
         IN  (IF from # to THEN << [id |-> id, from |-> from, to |-> to] >>
              ELSE << >>) \o HrDiffLoop(hr, newRing, allIds, i + 1)

\* a diffMovedIds that takes the new ring for the old one
HrDiffMovedIdsBack(hr, newNumShards, allIds) ==
    HrDiffLoop(RingOf[newNumShards], hr, allIds, 1)

\* HashRing.diffMovedIds on any non-empty ring: the new ring is a
\* new HashRing() of the default replica count
HrDiffMovedIds(hr, newNumShards, allIds) ==
    HrDiffLoop(hr, RingOf[newNumShards], allIds, 1)

\* two rings constructed with the same replica count
InitRing ==
    /\ InitStore
    /\ sq = NoSq
    /\ lruSt = NoLru
    /\ arSt = NoAr /\ gsSt = NoGs /\ rxSt = NoRx /\ cgSt = NoCg /\ soSt = NoSo
    /\ \E replicas \in ReplicaCounts :
          hrSt = [replicas |-> replicas, a |-> EmptyRing, b |-> EmptyRing,
                  gone |-> {}]

\* addNode on the first or the second ring
HrAddNode(which, nd) ==
    /\ hrSt' = IF which = "a"
               THEN [hrSt EXCEPT !.a = addNodeOf(@, nd, hrSt.replicas),
                                 !.gone = @ \ {nd}]
               ELSE [hrSt EXCEPT !.b = addNodeOf(@, nd, hrSt.replicas)]
    /\ UNCHANGED << storeVars, sq, lruSt, arSt, gsSt, rxSt, cgSt, soSt >>

\* removeNode on the first or the second ring; gone are the nodes removed
\* from the first ring and not added again
HrRemoveNode(which, nd) ==
    /\ hrSt' = IF which = "a"
               THEN [hrSt EXCEPT !.a = removeNode(@, nd),
                                 !.gone = @ \cup {nd}]
               ELSE [hrSt EXCEPT !.b = removeNode(@, nd)]
    /\ UNCHANGED << storeVars, sq, lruSt, arSt, gsSt, rxSt, cgSt, soSt >>

NextRing ==
    \/ \E which \in {"a", "b"}, nd \in RingNodeNames : HrAddNode(which, nd)
    \/ \E which \in {"a", "b"}, nd \in RingNodeNames : HrRemoveNode(which, nd)

\* every sequence of addNode and removeNode on two rings
SpecRing == InitRing /\ [][NextRing]_vars

\* --------------------------------------------------- the LRU on its own
\* one key more than the largest capacity
LruKeyDom == 0 .. MaxLruCap
LruValDom == 1 .. MaxLruVal

\* The reference least-recently-used map: rank[k] is 0 for an absent key
\* and else the position of k from the least recent (1) to the most recent.
RefEmpty == [rank |-> [k \in LruKeyDom |-> 0], val |-> [k \in LruKeyDom |-> 0]]
RefSize(ref) == Cardinality({ k \in LruKeyDom : ref.rank[k] > 0 })

\* key becomes the most recent one
RefTouch(ref, key) ==
    LET old == ref.rank[key]
        top == IF old > 0 THEN RefSize(ref) ELSE RefSize(ref) + 1
    IN  [ref EXCEPT !.rank = [k \in LruKeyDom |->
            IF k = key THEN top
            ELSE IF old > 0 /\ ref.rank[k] > old THEN ref.rank[k] - 1
            ELSE ref.rank[k]]]

\* the least recent entry goes
RefEvict(ref) ==
    [rank |-> [k \in LruKeyDom |-> IF ref.rank[k] > 0 THEN ref.rank[k] - 1 ELSE 0],
     val  |-> [k \in LruKeyDom |-> IF ref.rank[k] = 1 THEN 0 ELSE ref.val[k]]]

RefGet(ref, key) == IF ref.rank[key] > 0 THEN RefTouch(ref, key) ELSE ref

RefSet(ref, max, key, val) ==
    LET r1 == [RefTouch(ref, key) EXCEPT !.val[key] = val]
    IN  IF RefSize(r1) > max THEN RefEvict(r1) ELSE r1

\* the reference map an LRU Map stands for
RefOf(map) ==
    [rank |-> [k \in LruKeyDom |-> IF LruHas(map, k) THEN LruIndex(map, k) ELSE 0],
     val  |-> [k \in LruKeyDom |-> IF LruHas(map, k) THEN map[LruIndex(map, k)].v ELSE 0]]

NoCall == [op |-> "new", key |-> 0, val |-> 0, fails |-> FALSE]

\* new LRU(max)
InitLru ==
    /\ InitStore
    /\ sq = NoSq
    /\ hrSt = NoHr
    /\ arSt = NoAr /\ gsSt = NoGs /\ rxSt = NoRx /\ cgSt = NoCg /\ soSt = NoSo
    /\ \E max \in 1 .. MaxLruCap :
          lruSt = [max |-> max, map |-> << >>, ref |-> RefEmpty, before |-> << >>,
                   call |-> NoCall, prev |-> NoCall, hit |-> FALSE, ret |-> 0,
                   calls |-> << >>, threw |-> FALSE]

\* the LRU after a call: the map m, the call c and what it returned
LruAfter(m, r, c, hit, ret, calls, threw) ==
    /\ lruSt' = [max |-> lruSt.max, map |-> m, ref |-> r, before |-> lruSt.map,
                 call |-> c, prev |-> lruSt.call, hit |-> hit, ret |-> ret,
                 calls |-> calls, threw |-> threw]
    /\ UNCHANGED << storeVars, sq, hrSt, arSt, gsSt, rxSt, cgSt, soSt >>

LruGetCall(key) ==
    LET g == LruGet(lruSt.map, key)
    IN  LruAfter(g.map, RefGet(lruSt.ref, key),
                 [op |-> "get", key |-> key, val |-> 0, fails |-> FALSE],
                 g.hit, g.v, << >>, FALSE)

\* set(key, val, onEvict) with an onEvict that throws or not
LruSetCall(key, val, fails) ==
    LET r == LruSetCb(lruSt.map, lruSt.max, key, val, fails)
    IN  LruAfter(r.map, RefSet(lruSt.ref, lruSt.max, key, val),
                 [op |-> "set", key |-> key, val |-> val, fails |-> fails],
                 FALSE, 0, r.calls, r.threw)

\* clear()
LruClearCall ==
    LruAfter(LruClear(lruSt.map), RefEmpty, [op |-> "clear", key |-> 0, val |-> 0, fails |-> FALSE],
             FALSE, 0, << >>, FALSE)

NextLru ==
    \/ \E key \in LruKeyDom : LruGetCall(key)
    \/ \E key \in LruKeyDom, val \in LruValDom, fails \in BOOLEAN :
           LruSetCall(key, val, fails)
    \/ LruClearCall

\* every sequence of get, set and clear on an LRU of capacity 1 .. MaxLruCap
SpecLru == InitLru /\ [][NextLru]_vars

\* ------------------------------------------- a store loaded from its files
\* ShardManager.init on a directory that holds n empty shard files, as a
\* rebalance to n and a restart leave it
InitLoaded ==
    \E n \in 1 .. MaxLoadedShards :
        LET fs == [i \in ShardIdx |-> IF i < n THEN FileOf(EmptyDb) ELSE NoFile]
            st == loadShards(EmptyStore(fs), DefaultCacheSize, detectShardCount(fs), 0)
        IN  /\ numOfShards = detectShardCount(fs)
            /\ ring = NodeNames(numOfShards)
            /\ cacheMax = DefaultCacheSize
            /\ cache = Norm(st.heap, st.cache, NoTasks).cache
            /\ heap = Norm(st.heap, st.cache, NoTasks).heap
            /\ files = st.files
            /\ inflight = {}
            /\ pc = "idle"
            /\ op = NoOp
            /\ tasks = NoTasks
            /\ batch = EmptyDb
            /\ outcome = "resolved"
            /\ result = << >>
            /\ last = NoLast
            /\ ioCount = 0
            /\ pre = [i \in ShardIdx |-> EmptyDb]
            /\ saved = EmptyDb
            /\ sq = NoSq
            /\ lruSt = NoLru
            /\ hrSt = NoHr
            /\ arSt = NoAr /\ gsSt = NoGs /\ rxSt = NoRx /\ cgSt = NoCg /\ soSt = NoSo

\* -------------------------------------------- concurrent getShard calls
\* Callers of getShard on one manager, each call split at its awaits:
\* cache.get, readBinary, restore and setShard.  A caller is
\* [pc, idx, h, data, read, with]: with holds the callers that were loading
\* the same index when this one missed the cache.
Callers == 1 .. MaxCallers

\* the shard indices the callers ask for: one evicted by loadShards, one
\* resident
GsIdx == { 0, MaxLoadedShards - 1 }

NoCaller == [pc |-> "none", idx |-> 0, h |-> 0, data |-> EmptyDb, read |-> FALSE,
             with |-> {}]

\* a manager loaded from MaxLoadedShards empty shard files
InitGs ==
    /\ InitStore
    /\ sq = NoSq
    /\ lruSt = NoLru
    /\ hrSt = NoHr
    /\ arSt = NoAr
    /\ rxSt = NoRx /\ cgSt = NoCg /\ soSt = NoSo
    /\ LET fs == [i \in ShardIdx |-> IF i < MaxLoadedShards THEN FileOf(EmptyDb) ELSE NoFile]
       IN  gsSt = [st |-> loadShards(EmptyStore(fs), DefaultCacheSize, detectShardCount(fs), 0),
                   callers |-> [c \in Callers |-> NoCaller]]

GsAfter(st, c, caller) ==
    /\ gsSt' = [st |-> st, callers |-> [gsSt.callers EXCEPT ![c] = caller]]
    /\ UNCHANGED << storeVars, sq, lruSt, hrSt, arSt, rxSt, cgSt, soSt >>

\* const inCache = this.cache.get(idx); if (inCache) return inCache;
\* else readBinary is issued
GsCall(c, idx) ==
    /\ gsSt.callers[c].pc = "none"
    /\ LET g == LruGet(gsSt.st.cache, idx)
           loading == { c2 \in Callers : /\ gsSt.callers[c2].pc \in { "reading", "restoring" }
                                         /\ gsSt.callers[c2].idx = idx }
       IN  IF g.hit
           THEN GsAfter([gsSt.st EXCEPT !.cache = g.map], c,
                        [NoCaller EXCEPT !.pc = "done", !.idx = idx, !.h = g.v])
           ELSE GsAfter(gsSt.st, c,
                        [NoCaller EXCEPT !.pc = "reading", !.idx = idx, !.with = loading])

\* const data = await this.file.readBinary(filePath)
GsRead(c) ==
    /\ gsSt.callers[c].pc = "reading"
    /\ GsAfter(gsSt.st, c,
               [gsSt.callers[c] EXCEPT !.pc = "restoring", !.read = TRUE,
                                       !.data = gsSt.st.files[gsSt.callers[c].idx].data])

\* const db = await restore(...); await this.setShard(db, idx); return db
GsSet(c) ==
    /\ gsSt.callers[c].pc = "restoring"
    /\ LET h  == Alloc(gsSt.st.heap)
           s1 == [gsSt.st EXCEPT !.heap = HeapPut(gsSt.st.heap, h, gsSt.callers[c].data)]
       IN  GsAfter(setShard(s1, DefaultCacheSize, h, gsSt.callers[c].idx), c,
                   [gsSt.callers[c] EXCEPT !.pc = "done", !.h = h])

\* the document caller c saves
DocOf(c) == SetToSeq(DocIds)[c]

\* the caller, a saveMany task, upserts its document into the instance it
\* was given and persists the instance
GsUpdate(c) ==
    /\ gsSt.callers[c].pc = "done"
    /\ LET h  == gsSt.callers[c].h
           s1 == [gsSt.st EXCEPT !.heap[h] = insert(remove(@, DocOf(c)), DocOf(c), 1)]
       IN  GsAfter(persistShard(s1, h, gsSt.callers[c].idx), c,
                   [gsSt.callers[c] EXCEPT !.pc = "saved"])

NextGs ==
    \/ \E c \in Callers, idx \in GsIdx : GsCall(c, idx)
    \/ \E c \in Callers : GsRead(c)
    \/ \E c \in Callers : GsSet(c)
    \/ \E c \in Callers : GsUpdate(c)

\* getShard calls of several callers interleaved at their awaits
SpecGs == InitGs /\ [][NextGs]_vars

\* ------------------------------------------------ DocumentService.reindex
\* The file paths are the indices 0 .. n-1; a batch [lo, hi] is
\* items.slice(lo, hi).  The vector store is what reindex sees of it: the
\* number of files indexed in it, and the calls made on it.
RECURSIVE splitIntoBatches(_, _, _)
splitIntoBatches(n, i, batchSize) ==
    IF i >= n THEN << >>
    ELSE << [lo |-> i, hi |-> IF i + batchSize < n THEN i + batchSize ELSE n] >>
             \o splitIntoBatches(n, i + batchSize, batchSize)

\* the numbers of file paths: around the multiples of the batch size
FileCounts == { n \in 0 .. MaxFiles : n % BATCH_SIZE \in { 0, 1, BATCH_SIZE - 1 } }

\* error.message of the errors the store and the processor reject with
ErrorMessages == { "fail", "disk full" }

\* a wrapper that passes the message on as it is
WrapNone(message) == << message >>

\* new Error(`Reindexing failed: ${error.message}`): the parts of the message
Wrap(message) == << "Reindexing failed: ", message >>

\* reindex(filePaths) is called on a store that holds some indexed files
InitRx ==
    /\ InitStore
    /\ sq = NoSq
    /\ lruSt = NoLru
    /\ hrSt = NoHr
    /\ arSt = NoAr
    /\ gsSt = NoGs
    /\ cgSt = NoCg
    /\ soSt = NoSo
    /\ \E n \in FileCounts, stored \in { 0, 7 } :
          rxSt = [n |-> n, pos |-> "reset", i |-> 1, batches |-> splitIntoBatches(n, 0, BATCH_SIZE),
                  stored |-> stored, resets |-> 0, resetsOk |-> 0, processed |-> << >>,
                  added |-> << >>, failedAt |-> "none", error |-> "",
                  outcome |-> "pending", thrown |-> << >>]

RxAfter(rx) ==
    /\ rxSt' = rx
    /\ UNCHANGED << storeVars, sq, lruSt, hrSt, arSt, gsSt, cgSt, soSt >>

\* position after batch i was added
RxNext(rx) ==
    IF rx.i > Len(rx.batches)
    THEN [rx EXCEPT !.pos = "done", !.outcome = "resolved"]
    ELSE [rx EXCEPT !.pos = "process"]

\* await this.vectorStore.reset() at the start of the try block
RxReset(fails, message) ==
    /\ rxSt # NoRx
    /\ rxSt.pos = "reset"
    /\ RxAfter(IF fails
               THEN [rxSt EXCEPT !.resets = @ + 1, !.pos = "catch", !.failedAt = "reset",
                                 !.error = message]
               ELSE RxNext([rxSt EXCEPT !.resets = @ + 1, !.resetsOk = @ + 1,
                                        !.stored = 0]))

\* await this.markdownProcessor.processMarkdownFiles(batch)
RxProcess(fails, message) ==
    /\ rxSt # NoRx
    /\ rxSt.pos = "process"
    /\ RxAfter(IF fails
               THEN [rxSt EXCEPT !.pos = "catch", !.failedAt = "process", !.error = message]
               ELSE [rxSt EXCEPT !.pos = "add",
                                 !.processed = Append(@, rxSt.batches[rxSt.i])])

\* await this.vectorStore.addDocuments(documents): a failing call may have
\* indexed a part of the batch
RxAdd(fails, message, part) ==
    /\ rxSt # NoRx
    /\ rxSt.pos = "add"
    /\ LET b == rxSt.batches[rxSt.i]
       IN  RxAfter(IF fails
                   THEN [rxSt EXCEPT !.pos = "catch", !.failedAt = "add", !.error = message,
                                     !.stored = @ + (IF part THEN 1 ELSE 0)]
                   ELSE RxNext([rxSt EXCEPT !.added = Append(@, b), !.i = @ + 1,
                                            !.stored = @ + (b.hi - b.lo)]))

\* catch (error): await this.vectorStore.reset(); throw new Error(...)
RxCatch(fails, message) ==
    /\ rxSt # NoRx
    /\ rxSt.pos = "catch"
    /\ RxAfter(IF fails
               THEN [rxSt EXCEPT !.resets = @ + 1, !.pos = "done", !.outcome = "rejected",
                                 !.thrown = << message >>]
               ELSE [rxSt EXCEPT !.resets = @ + 1, !.resetsOk = @ + 1, !.stored = 0,
                                 !.pos = "done", !.outcome = "rejected",
                                 !.thrown = Wrap(rxSt.error)])

NextRx ==
    \/ \E fails \in BOOLEAN, message \in ErrorMessages : RxReset(fails, message)
    \/ \E fails \in BOOLEAN, message \in ErrorMessages : RxProcess(fails, message)
    \/ \E fails, part \in BOOLEAN, message \in ErrorMessages : RxAdd(fails, message, part)
    \/ \E fails \in BOOLEAN, message \in ErrorMessages : RxCatch(fails, message)

\* one reindex, with every failure of the store and of the processor
SpecRx == InitRx /\ [][NextRx]_vars

\* ----------------------------------------------- init on any directory
\* ShardManager.init: [n, st], load when the directory exists, create when
\* it does not
init(dirExists, fs) ==
    IF dirExists
    THEN [n  |-> detectShardCount(fs),
          st |-> loadShards(EmptyStore(fs), DefaultCacheSize, detectShardCount(fs), 0)]
    ELSE [n  |-> DefaultShards,
          st |-> createShards(EmptyStore(fs), DefaultCacheSize, DefaultShards, 0)]

\* the directories init is called on: absent, or holding the files of any
\* set of the shard indices 0 .. MaxDirFiles-1, each an empty shard
Directories ==
    { [exists |-> FALSE, present |-> {}] }
        \cup { [exists |-> TRUE, present |-> S] : S \in SUBSET (0 .. (MaxDirFiles - 1)) }

InitAny ==
    \E dir \in Directories :
        LET fs == [i \in ShardIdx |-> IF i \in dir.present THEN FileOf(EmptyDb) ELSE NoFile]
            r  == init(dir.exists, fs)
        IN  /\ numOfShards = r.n
            /\ ring = NodeNames(r.n)
            /\ cacheMax = DefaultCacheSize
            /\ cache = Norm(r.st.heap, r.st.cache, NoTasks).cache
            /\ heap = Norm(r.st.heap, r.st.cache, NoTasks).heap
            /\ files = r.st.files
            /\ inflight = {}
            /\ pc = "idle"
            /\ op = NoOp
            /\ tasks = NoTasks
            /\ batch = EmptyDb
            /\ outcome = "resolved"
            /\ result = << >>
            /\ last = [NoLast EXCEPT !.op = IF dir.exists THEN "load" ELSE "create"]
            /\ ioCount = r.st.io
            /\ pre = [i \in ShardIdx |-> EmptyDb]
            /\ saved = EmptyDb
            /\ sq = NoSq
            /\ lruSt = NoLru
            /\ hrSt = NoHr
            /\ arSt = NoAr /\ gsSt = NoGs /\ rxSt = NoRx /\ cgSt = NoCg /\ soSt = NoSo

\* ------------------------------------------- growing a loaded store
\* the shard files of a store of c shards that holds the documents ids, each
\* in the shard its id routes to
RoutedFiles(c, ids) ==
    [i \in ShardIdx |->
        IF i >= c THEN NoFile
        ELSE FileOf([d \in DocIds |-> IF d \in ids /\ parseInt(NodeTable[c][d]) = i
                                      THEN 1 ELSE Absent])]

\* ShardManager.init on the directory of a store of 1 .. MaxGrowShards-1
\* shards that holds documents
InitGrow ==
    \E c \in 1 .. (MaxGrowShards - 1), ids \in SUBSET DocIds :
        LET fs == RoutedFiles(c, ids)
            r  == init(TRUE, fs)
        IN  /\ numOfShards = r.n
            /\ ring = NodeNames(r.n)
            /\ cacheMax = DefaultCacheSize
            /\ cache = Norm(r.st.heap, r.st.cache, NoTasks).cache
            /\ heap = Norm(r.st.heap, r.st.cache, NoTasks).heap
            /\ files = r.st.files
            /\ inflight = {}
            /\ pc = "idle"
            /\ op = NoOp
            /\ tasks = NoTasks
            /\ batch = EmptyDb
            /\ outcome = "resolved"
            /\ result = << >>
            /\ last = [NoLast EXCEPT !.op = "load"]
            /\ ioCount = 0
            /\ pre = [i \in ShardIdx |-> EmptyDb]
            /\ saved = [d \in DocIds |-> IF d \in ids THEN 1 ELSE Absent]
            /\ sq = NoSq
            /\ lruSt = NoLru
            /\ hrSt = NoHr
            /\ arSt = NoAr
            /\ gsSt = NoGs
            /\ rxSt = NoRx /\ cgSt = NoCg /\ soSt = NoSo

\* the first call on the loaded store is a rebalance to more shards
GrowCall(n) ==
    /\ last.op = "load"
    /\ n > numOfShards
    /\ RebalanceStart(n, FALSE)

NextGrow ==
    \/ \E n \in 2 .. MaxGrowShards : GrowCall(n)
    \/ RbCollect
    \/ RbExpand1
    \/ RbExpand2
    \/ RbMove
    \/ RbPersist
    \/ RbInstall
    \/ WriteLands

\* a store loaded from its files is grown by one rebalance
SpecGrow == InitGrow /\ [][NextGrow]_vars

\* the batches of the saveMany specification: one document, or all of them,
\* in one content version
UniformBatches ==
    { b \in Batches(Cardinality(DocIds)) :
          /\ Cardinality(IdsOf(b)) \in { 1, Cardinality(DocIds) }
          /\ \A d, e \in DocIds : b[d] # Absent /\ b[e] # Absent => b[d] = b[e] }

\* ------------------------------------------------ callWithStructuredOutput
\* A reply of the structured model to one invoke: a value, or an error thrown
\* (the response was not valid JSON for the schema).
ModelReplies ==
    [ok : {TRUE}, v : 1 .. MaxModelValues] \cup [ok : {FALSE}, v : 1 .. MaxModelErrors]

\* the replies the model would give to the first, second and third invoke
ReplySeqs == [1 .. StructuredAttempts -> ModelReplies]

Corrective == "system: Previous response was not valid JSON. Respond in valid JSON only."

\* the inputs: a message array, a prompt value, a string
PromptInputs ==
    { [kind |-> "array", msgs |-> << "system: task", "user: question" >>],
      [kind |-> "promptValue", msgs |-> << "system: task", "user: question" >>],
      [kind |-> "string", msgs |-> << "question" >>] }

\* prompt.toChatMessages() of a prompt value
toChatMessages(prompt) == prompt.msgs

\* the catch block: the corrective system message is put in front of the
\* prompt, which becomes a message array
AddCorrective(prompt) ==
    IF prompt.kind = "array"
    THEN [kind |-> "array", msgs |-> << Corrective >> \o prompt.msgs]
    ELSE IF prompt.kind = "promptValue"
    THEN [kind |-> "array", msgs |-> << Corrective >> \o toChatMessages(prompt)]
    ELSE [kind |-> "array", msgs |-> << Corrective, prompt.msgs[1] >>]

\* a catch block that never rethrows
LastAttemptNever(i) == FALSE

\* if (i === 2) throw err
LastAttempt(i) == i = 2

RECURSIVE StructuredLoop(_, _, _, _)
\* for (i = 0; i < 3; i++) try { return await structured.invoke(prompt) }
\* catch ...; log holds the prompt of every invoke made
StructuredLoop(replies, i, prompt, log) ==
    IF i >= StructuredAttempts
    THEN [outcome |-> "thrown", value |-> 0, err |-> 0, prompts |-> log]
    ELSE LET reply == replies[i + 1]
             log2  == Append(log, prompt)
         IN  IF reply.ok
             THEN [outcome |-> "returned", value |-> reply.v, err |-> 0, prompts |-> log2]
             ELSE IF LastAttempt(i)
             THEN [outcome |-> "thrown", value |-> 0, err |-> reply.v, prompts |-> log2]
             ELSE StructuredLoop(replies, i + 1, AddCorrective(prompt), log2)

\* callWithStructuredOutput(model, schema, input); err 0 is the error
\* "Unreachable"
callWithStructuredOutput(replies, input) == StructuredLoop(replies, 0, input, << >>)

NoRes == [outcome |-> "none", value |-> 0, err |-> 0, prompts |-> << >>]

InitSo ==
    /\ InitStore
    /\ sq = NoSq
    /\ lruSt = NoLru
    /\ hrSt = NoHr
    /\ arSt = NoAr
    /\ gsSt = NoGs
    /\ rxSt = NoRx
    /\ cgSt = NoCg
    /\ \E replies \in ReplySeqs, input \in PromptInputs :
          soSt = [replies |-> replies, input |-> input, res |-> NoRes]

\* the call is made and settles
SoCall ==
    /\ soSt.res = NoRes
    /\ soSt' = [soSt EXCEPT !.res = callWithStructuredOutput(soSt.replies, soSt.input)]
    /\ UNCHANGED << storeVars, sq, lruSt, hrSt, arSt, gsSt, rxSt, cgSt >>

\* one callWithStructuredOutput for every input and every behaviour of the
\* model
SpecSo == InitSo /\ [][SoCall]_vars

\* ------------------------------------------------------------ chat graph
\* One graph made by createChatGraph: the closure variable attempts of its
\* evaluate node, and its invocations. An invocation: the node it is at,
\* state.search (0: missing), state.isEnough, and what it has done so far:
\* evals (evaluate nodes that went to the model), modelCalls (invokes of the
\* evaluator model), bad (an evaluator output was invalid), saidEnough (the
\* evaluator reported isEnough), retrievals, answers.
Convs == 1 .. MaxConvs

SearchParams == 1 .. MaxParams

NoInv ==
    [pc |-> "none", search |-> 0, isEnough |-> FALSE, evals |-> 0, modelCalls |-> 0,
     bad |-> FALSE, saidEnough |-> FALSE, retrievals |-> 0, answers |-> 0]

\* what PROMPT_ANALYSE.invoke and PROMPT_EVAL.invoke give: a prompt value
NodePrompt == [kind |-> "promptValue", msgs |-> << "system: task", "user: question" >>]

\* replies of the model under searchSchema: search parameters, or an error
AnalyseReplySeqs ==
    [1 .. StructuredAttempts ->
        [ok : {TRUE}, v : SearchParams] \cup [ok : {FALSE}, v : {1}]]

\* replies of the model under evalSchema: isEnough with optional nextParams
\* (0: absent), or an error
EvalReplySeqs ==
    [1 .. StructuredAttempts ->
        [ok : {TRUE}, v : [isEnough : BOOLEAN, nextParams : 0 .. MaxParams]]
            \cup [ok : {FALSE}, v : {1}]]

InitChat ==
    /\ InitStore
    /\ sq = NoSq
    /\ lruSt = NoLru
    /\ hrSt = NoHr
    /\ arSt = NoAr
    /\ gsSt = NoGs
    /\ rxSt = NoRx
    /\ soSt = NoSo
    /\ cgSt = [attempts |-> 0, inv |-> [c \in Convs |-> NoInv]]

SetInv(c, r) == [cgSt EXCEPT !.inv[c] = r]

\* graph.invoke: __start__ -> analyseQuery
CgInvoke(c) ==
    /\ cgSt # NoCg
    /\ cgSt.inv[c].pc = "none"
    /\ cgSt' = SetInv(c, [cgSt.inv[c] EXCEPT !.pc = "analyseQuery"])
    /\ UNCHANGED << storeVars, sq, lruSt, hrSt, arSt, gsSt, rxSt, soSt >>

\* makeAnalyseQueryNode, then the edge analyseQuery -> retrieveData; a
\* rejected node fails the invocation
CgAnalyse(c, replies) ==
    /\ cgSt # NoCg
    /\ cgSt.inv[c].pc = "analyseQuery"
    /\ LET res == callWithStructuredOutput(replies, NodePrompt)
       IN  cgSt' = SetInv(c,
              IF res.outcome = "returned"
              THEN [cgSt.inv[c] EXCEPT !.search = res.value, !.pc = "retrieveData"]
              ELSE [cgSt.inv[c] EXCEPT !.pc = "failed"])
    /\ UNCHANGED << storeVars, sq, lruSt, hrSt, arSt, gsSt, rxSt, soSt >>

\* makeRetrieveNode, then the edge retrieveData -> evaluateContext
CgRetrieve(c) ==
    /\ cgSt # NoCg
    /\ cgSt.inv[c].pc = "retrieveData"
    /\ cgSt' = SetInv(c,
          IF cgSt.inv[c].search = 0
          THEN [cgSt.inv[c] EXCEPT !.pc = "failed"]
          ELSE [cgSt.inv[c] EXCEPT !.retrievals = @ + 1, !.pc = "evaluateContext"])
    /\ UNCHANGED << storeVars, sq, lruSt, hrSt, arSt, gsSt, rxSt, soSt >>

\* the conditional edge after evaluateContext
AfterEvaluate(isEnough) == IF isEnough THEN "generateAnswer" ELSE "retrieveData"

\* an evaluate node that gives up one evaluation later
BudgetSpentLate(attempts) == attempts > MAX_RETRIES

\* if (attempts >= MAX_RETRIES) return { isEnough: true }
BudgetSpent(attempts) == attempts >= MAX_RETRIES

\* result.nextParams ?? state.search
NextSearch(nextParams, search) == IF nextParams = 0 THEN search ELSE nextParams

\* makeEvaluateNode, then the conditional edge. The test and the increment
\* of attempts run before the node's first await; nothing after it reads
\* attempts.
CgEvaluate(c, replies) ==
    /\ cgSt # NoCg
    /\ cgSt.inv[c].pc = "evaluateContext"
    /\ LET me  == cgSt.inv[c]
           res == callWithStructuredOutput(replies, NodePrompt)
           n   == Len(res.prompts)
       IN  IF BudgetSpent(cgSt.attempts)
           THEN cgSt' = SetInv(c, [me EXCEPT !.isEnough = TRUE, !.pc = AfterEvaluate(TRUE)])
           ELSE cgSt' =
                  [attempts |-> cgSt.attempts + 1,
                   inv |-> [cgSt.inv EXCEPT ![c] =
                      IF res.outcome = "thrown"
                      THEN [me EXCEPT !.evals = @ + 1, !.modelCalls = @ + n,
                                      !.bad = TRUE, !.pc = "failed"]
                      ELSE IF res.value.isEnough
                      THEN [me EXCEPT !.evals = @ + 1, !.modelCalls = @ + n,
                                      !.bad = @ \/ n > 1, !.saidEnough = TRUE,
                                      !.isEnough = TRUE, !.pc = AfterEvaluate(TRUE)]
                      ELSE [me EXCEPT !.evals = @ + 1, !.modelCalls = @ + n,
                                      !.bad = @ \/ n > 1, !.isEnough = FALSE,
                                      !.search = NextSearch(res.value.nextParams, @),
                                      !.pc = AfterEvaluate(FALSE)]]]
    /\ UNCHANGED << storeVars, sq, lruSt, hrSt, arSt, gsSt, rxSt, soSt >>

\* makeGenerateAnswerNode, then the edge generateAnswer -> __end__
CgGenerate(c) ==
    /\ cgSt # NoCg
    /\ cgSt.inv[c].pc = "generateAnswer"
    /\ cgSt' = SetInv(c, [cgSt.inv[c] EXCEPT !.answers = @ + 1, !.pc = "end"])
    /\ UNCHANGED << storeVars, sq, lruSt, hrSt, arSt, gsSt, rxSt, soSt >>

\* the steps of invocation c
CgStep(c) ==
    \/ CgInvoke(c)
    \/ \E replies \in AnalyseReplySeqs : CgAnalyse(c, replies)
    \/ CgRetrieve(c)
    \/ \E replies \in EvalReplySeqs : CgEvaluate(c, replies)
    \/ CgGenerate(c)

\* a fresh graph invoked once; every node the invocation awaits settles
NextFresh == CgStep(1)

SpecFresh == InitChat /\ [][NextFresh]_vars /\ WF_vars(NextFresh)

\* a graph invoked up to MaxConvs times, one after another or at once
NextChat == \E c \in Convs : CgStep(c)

SpecChat == InitChat /\ [][NextChat]_vars

\* -------------------------------------------------------- the specifications
Next ==
    \/ \E n \in 1 .. MaxShards : RebalanceCall(n)
    \/ RbCollect
    \/ RbExpand1
    \/ RbExpand2
    \/ RbMove
    \/ RbPersist
    \/ RbShrink
    \/ RbInstall
    \/ WriteLands
    \/ Restart
    \/ \E b \in FirstBatches : SaveCall(b)
    \/ \E s \in ShardIdx : TaskLoad(s)
    \/ \E s \in ShardIdx : TaskUpd(s)
    \/ \E k \in 1 .. MaxK : SearchCall(k, NoFetchK)
    \/ ResetCall
    \/ AutoCall

\* the sharded store: saveMany, search, rebalance and restart, one call at
\* a time, every write of a call nobody awaited landing before the next call
Spec == Init /\ [][Next]_vars

NextSave ==
    \/ \E b \in UniformBatches : SaveCall(b)
    \/ \E s \in ShardIdx : TaskLoad(s)
    \/ \E s \in ShardIdx : TaskUpd(s)

NextMid ==
    \/ Next
    \/ \E k \in 1 .. MaxK : SearchMid(k, NoFetchK)

\* the sharded store with searches that run inside a rebalance
SpecMid == Init /\ [][NextMid]_vars

\* the calls of the sharded store after init on any directory
SpecInit == InitAny /\ [][Next]_vars

\* saveMany on a loaded store, its per-shard tasks interleaved at will
SpecSave == InitLoaded /\ [][NextSave]_vars

NextTouch ==
    \/ \E b \in FirstBatches : SaveCall(b)
    \/ \E s \in ShardIdx : TaskLoad(s)
    \/ \E s \in ShardIdx : TaskUpd(s)

\* saveMany of batches of no, one or two documents on a loaded store
SpecTouch == InitLoaded /\ [][NextTouch]_vars

\* the batches of one document
SingleBatches == { b \in FirstBatches : Cardinality(IdsOf(b)) = 1 }

NextSaveMid ==
    \/ \E n \in 1 .. MaxShards : RebalanceCall(n)
    \/ RbCollect
    \/ RbExpand1
    \/ RbExpand2
    \/ RbMove
    \/ RbPersist
    \/ RbShrink
    \/ RbInstall
    \/ WriteLands
    \/ \E b \in SingleBatches : SaveMid(b)

\* rebalances with one saveMany running inside each of them
SpecSaveMid == Init /\ [][NextSaveMid]_vars

NextFault ==
    \/ \E b \in FirstBatches : SaveCall(b)
    \/ \E s \in ShardIdx : TaskLoad(s)
    \/ \E s \in ShardIdx : TaskUpd(s)
    \/ \E s \in ShardIdx : TaskLoadFail(s)
    \/ \E s \in ShardIdx : TaskUpsertFail(s)
    \/ \E s \in ShardIdx : TaskPersistFail(s)

NextAnon ==
    \/ \E b \in FirstBatches, anon \in 1 .. MaxAnon : SaveDocs(b, anon)
    \/ \E s \in ShardIdx : TaskLoad(s)
    \/ \E s \in ShardIdx : TaskUpd(s)

\* saveMany of batches some documents of which carry no id
SpecAnon == InitLoaded /\ [][NextAnon]_vars

\* saveMany on a loaded store with failing reads, upserts and writes
SpecFault == InitLoaded /\ [][NextFault]_vars

\* the search-merge over every placement of the documents on two shards
SpecSearch == InitSq /\ [][SqSearch]_vars

\* ------------------------------------------------------------ properties
\* the shard index the manager's ring routes id d to
Route(d) == parseInt(mgrGetNode(ring, d))

\* how many of the shards 0 .. n-1 of a snapshot hold id d
RECURSIVE Copies(_, _, _)
Copies(snap, n, d) ==
    IF n = 0 THEN 0
    ELSE (IF snap[n - 1][d] # Absent THEN 1 ELSE 0) + Copies(snap, n - 1, d)

\* a rebalance to another shard count has resolved and its writes landed
RebalanceDone ==
    /\ Quiet
    /\ last.op = "rebalance"
    /\ last.n # last.from
    /\ outcome = "resolved"

\* C1: a resolved rebalance keeps the multiset of stored documents: every id
\* is held as often after it as before, with the same content.
C1_Conservation ==
    RebalanceDone =>
        \A d \in DocIds :
            /\ Copies(Snapshot, numOfShards, d) = Copies(pre, last.from, d)
            /\ \A i \in ShardIdx : i < numOfShards /\ Snapshot[i][d] # Absent =>
                   \E j \in ShardIdx : j < last.from /\ pre[j][d] = Snapshot[i][d]

\* C2: after a resolved rebalance every stored document sits in the shard
\* that getNode of the new ring names for its id.
C2_RoutingConsistent ==
    RebalanceDone =>
        \A d \in DocIds : \A i \in ShardIdx :
            i < numOfShards /\ Snapshot[i][d] # Absent => i = Route(d)

\* C3: a rebalance to the current shard count changes neither the shard
\* count, the ring, the cache, the instances nor the files, and writes and
\* deletes no file.
C3_NoopRebalance ==
    [][ (Quiet /\ last'.op = "rebalance" /\ last'.n = numOfShards)
            => /\ UNCHANGED mgrVars
               /\ pc' = "idle"
               /\ outcome' = "resolved"
               /\ ioCount' = 0 ]_vars

\* a rebalance to the current count of 2 shards returned on a store that
\* holds documents
C3_Witness ==
    /\ pc = "idle"
    /\ last.op = "rebalance"
    /\ last.n = last.from
    /\ last.n = 2
    /\ numOfShards = 2
    /\ saved # EmptyDb
    /\ ioCount = 0

AllHitsRanked == SortHits({ x \in HitsOfShard([j \in SearchDocs |-> 0], 0) :
                              x.score >= Similarity(sq.lambda) })

\* C5: search returns the k best-scoring matching documents over all the
\* shards, best first.
C5_TopK == sq.done => sq.res = Take(AllHitsRanked, sq.k)

\* C6: each shard is asked for fetchK hits, for k hits when fetchK is left
\* out.
C6_PerShardLimit ==
    sq.done => sq.limit = (IF sq.fetchK = NoFetchK THEN sq.k ELSE sq.fetchK)

\* the ranked result of the same query on one shard that holds every saved
\* document
SingleShardResult ==
    MergeHits(OramaSearch(HitsOfDb(saved), PerShardLimit(last.k, last.fetchK),
                          Similarity(NoLambda)), last.k)

\* C7: whatever the shard count and the rebalances before it, a search
\* returns the ranked result of the saved documents.
C7_SearchInvariant ==
    (pc = "idle" /\ last.op = "search" /\ outcome = "resolved") =>
        result = SingleShardResult

\* a saveMany has resolved
SaveDone == pc = "idle" /\ last.op = "saveMany" /\ outcome = "resolved"

\* C8: when saveMany resolves, under every interleaving of its per-shard
\* tasks, each document of the batch is in the file of the shard its id
\* routes to and in no other, and no document saved earlier is lost.
C8_SaveManyInterleaved ==
    SaveDone =>
        /\ \A d \in IdsOf(batch) : \A i \in ShardIdx :
               (files[i].exists /\ files[i].data[d] # Absent) <=> i = Route(d)
        /\ \A d \in IdsOf(batch) : files[Route(d)].data[d] = batch[d]
        /\ \A d \in IdsOf(saved) : \E i \in ShardIdx :
               i < numOfShards /\ files[i].data[d] # Absent

\* a batch resolved whose tasks, one per shard, outnumber the cache slots,
\* so that a task loading its shard evicted the shard of another one
C8_Witness ==
    /\ SaveDone
    /\ numOfShards > cacheMax
    /\ Cardinality({ s \in ShardIdx : tasks[s].pc = "done" }) > cacheMax
    /\ \A d \in IdsOf(batch) : batch[d] = 2

\* C9: saveMany upserts by id: the files hold every saved id exactly once,
\* in the shard it routes to, with the content of its latest save, and
\* nothing else, so that saving a batch again leaves them as they are.
C9_UpsertById ==
    SaveDone =>
        \A i \in ShardIdx : \A d \in DocIds :
            (IF files[i].exists THEN files[i].data[d] ELSE Absent)
                = (IF i = Route(d) THEN saved[d] ELSE Absent)

\* an id saved before was saved again with its second content
C9_Witness ==
    /\ SaveDone
    /\ \E d \in IdsOf(batch) : batch[d] = 2 /\ files[Route(d)].data[d] = 2
    /\ \E d \in IdsOf(saved) : batch[d] = Absent

\* C10: a saveMany one of whose tasks failed to read its shard, to upsert
\* or to write the file does not resolve: it rejects.
C10_FailureSurfaces ==
    (last.op = "saveMany" /\ \E s \in ShardIdx : tasks[s].pc = "failed")
        => outcome = "rejected"

\* a saveMany one of whose tasks failed while another one finished
C10_Witness ==
    /\ pc = "idle"
    /\ last.op = "saveMany"
    /\ outcome = "rejected"
    /\ \E s \in ShardIdx : tasks[s].pc = "failed"
    /\ \E s \in ShardIdx : tasks[s].pc = "done"

\* C11: a saveMany whose batch holds a document without an id does not
\* resolve: it reports a failure.
C11_AnonRejected ==
    (pc = "idle" /\ last.op = "saveMany" /\ last.anon > 0) => outcome = "rejected"

\* C12: whatever calls were made, the LRU holds at most as many entries
\* as its capacity when a call returns.
C12_LruCapacity == lruSt # NoLru => Len(lruSt.map) <= lruSt.max

\* a set on a full LRU has just evicted
C12_Witness ==
    /\ lruSt # NoLru
    /\ lruSt.call.op = "set"
    /\ Len(lruSt.before) = lruSt.max
    /\ Len(lruSt.calls) = 1
    /\ Len(lruSt.map) = lruSt.max

\* C13: after every sequence of calls the LRU is the reference
\* least-recently-used map that got the same calls, and a get returns what
\* the reference holds for the key before the call: a hit makes the key the
\* most recent, a miss changes nothing, a set makes its key the most recent
\* and evicts the least recent entry alone when the capacity is exceeded.
C13_LruRefinesReference ==
    lruSt # NoLru =>
        /\ RefOf(lruSt.map) = lruSt.ref
        /\ lruSt.call.op = "get" =>
               /\ lruSt.hit = LruHas(lruSt.before, lruSt.call.key)
               /\ lruSt.hit => lruSt.ret = RefOf(lruSt.before).val[lruSt.call.key]
               /\ ~ lruSt.hit => lruSt.map = lruSt.before
        /\ (lruSt.call.op = "set" /\ lruSt.prev.op = "get"
                /\ LruHas(lruSt.before, lruSt.prev.key)
                /\ lruSt.max > 1)
               => LruHas(lruSt.map, lruSt.prev.key)

\* C13 as stated, for every capacity: the key a get just read outlives the
\* set that follows.
C13_ReadKeySurvives ==
    lruSt # NoLru =>
        ((lruSt.call.op = "set" /\ lruSt.prev.op = "get"
             /\ LruHas(lruSt.before, lruSt.prev.key))
            => LruHas(lruSt.map, lruSt.prev.key))

\* the least recent key was read, then a new key was set on the full LRU:
\* the key read is still there
C13_Witness ==
    /\ lruSt # NoLru
    /\ lruSt.max > 1
    /\ lruSt.call.op = "set"
    /\ lruSt.prev.op = "get"
    /\ Len(lruSt.calls) = 1
    /\ ~ LruHas(lruSt.before, lruSt.call.key)
    /\ LruHas(lruSt.map, lruSt.prev.key)

\* C14: set calls onEvict once, before it returns, with the least recent
\* entry when the insertion exceeded the capacity, and not at all
\* otherwise; when onEvict throws, the evicted entry is gone from the LRU
\* and the entry set is in it.
C14_OnEvict ==
    (lruSt # NoLru /\ lruSt.call.op = "set") =>
        LET over == /\ ~ LruHas(lruSt.before, lruSt.call.key)
                    /\ Len(lruSt.before) = lruSt.max
        IN  /\ lruSt.calls = (IF over THEN << lruSt.before[1] >> ELSE << >>)
            /\ lruSt.threw = (over /\ lruSt.call.fails)
            /\ lruSt.threw =>
                   /\ ~ LruHas(lruSt.map, lruSt.before[1].k)
                   /\ LruHas(lruSt.map, lruSt.call.key)
                   /\ RefOf(lruSt.map).val[lruSt.call.key] = lruSt.call.val

\* a set whose onEvict threw
C14_Witness ==
    /\ lruSt # NoLru
    /\ lruSt.call.op = "set"
    /\ lruSt.threw
    /\ Len(lruSt.calls) = 1
    /\ lruSt.max > 1

\* C15: two rings constructed with the same replica count that hold the
\* same nodes, whatever the order of the addNode calls and the removeNode
\* calls between them, give every key the same node.
C15_RingDeterminism ==
    (hrSt # NoHr /\ hrSt.a.nodes = hrSt.b.nodes /\ hrSt.a.nodes # {}) =>
        \A key \in RingKeys : getNode(hrSt.a, key) = getNode(hrSt.b, key)

\* two rings of the same two or more nodes, the first after a removeNode
C15_Witness ==
    /\ hrSt # NoHr
    /\ hrSt.a.nodes = hrSt.b.nodes
    /\ Cardinality(hrSt.a.nodes) >= 2
    /\ hrSt.gone # {}
    /\ hrSt.replicas = Replicas
    /\ \E key, other \in RingKeys : getNode(hrSt.a, key) # getNode(hrSt.a, other)

\* C16: getNode returns a registered node for every key, never a node that
\* was removed and not added again, and the ring has no virtual node, so
\* that getNode throws "Hash ring is empty", exactly when no node is
\* registered.
C16_RingCoverage ==
    hrSt # NoHr =>
        /\ RingIsEmpty(hrSt.a) <=> hrSt.a.nodes = {}
        /\ ~ RingIsEmpty(hrSt.a) =>
               \A key \in RingKeys :
                   /\ getNode(hrSt.a, key) \in hrSt.a.nodes
                   /\ getNode(hrSt.a, key) \notin hrSt.gone

\* a node was removed from a ring that keeps other nodes
C16_Witness ==
    /\ hrSt # NoHr
    /\ hrSt.gone # {}
    /\ hrSt.a.nodes # {}
    /\ hrSt.replicas = Replicas

\* the index, from 0, of the first entry of vnodes whose hash is at least h;
\* Len(vnodes) when there is none
FirstAtLeast(vnodes, h) ==
    Cardinality({ i \in 1 .. Len(vnodes) : HashLt(vnodes[i].hash, h) })

\* C17: getNode returns the node of the first virtual node, in hash order,
\* whose hash is greater than or equal to the hash of the key, and the node
\* of the entry at index 0 when there is none.
C17_LookupRule ==
    (hrSt # NoHr /\ ~ RingIsEmpty(hrSt.a)) =>
        \A key \in RingKeys :
            LET vnodes == hrSt.a.ring
                lo     == FirstAtLeast(vnodes, fnv1a(key))
            IN  getNode(hrSt.a, key) = vnodes[(lo % Len(vnodes)) + 1].node

\* the entries diffMovedIds is to return for allIds on the ring hr against
\* the ring target
RECURSIVE MovedRef(_, _, _)
MovedRef(hr, target, allIds) ==
    IF allIds = << >> THEN << >>
    ELSE LET id == Head(allIds)
         IN  (IF getNode(hr, id) # getNode(target, id)
              THEN << [id |-> id, from |-> getNode(hr, id), to |-> getNode(target, id)] >>
              ELSE << >>) \o MovedRef(hr, target, Tail(allIds))

\* C18: diffMovedIds(n, ids) lists, in input order, the ids whose node here
\* differs from their node on the ring of the nodes "0" .. "n-1", with both
\* nodes, and lists nothing when this ring holds exactly the nodes
\* "0" .. "n-1", whatever its replica count.
C18_DiffMovedIds ==
    (hrSt # NoHr /\ ~ RingIsEmpty(hrSt.a)) =>
        \A n \in 1 .. MaxRingNodes :
            LET moved == HrDiffMovedIds(hrSt.a, n, KeySeq(RingKeys))
            IN  /\ moved = MovedRef(hrSt.a, RingOf[n], KeySeq(RingKeys))
                /\ hrSt.a.nodes = NodeNames(n) => moved = << >>

\* the largest and the smallest of two numbers

\* C19: with c shards and avg the average size of the files that exist,
\* autoRebalance calls rebalance(min(32, 2c)) when avg > 500MB, calls
\* rebalance(max(2, floor(c/2))) when avg < 100MB and c > 2, and calls
\* nothing and changes nothing otherwise, as when no file exists or the
\* target is c.
C19_AutoDecision ==
    (arSt # NoAr /\ arSt.hist # << >>) =>
        LET c  == arSt.from.c
            e  == c - arSt.from.missing
            t  == arSt.from.total
            to == IF e > 0 /\ t > 500 * e THEN Smaller(32, 2 * c)
                  ELSE IF e > 0 /\ t < 100 * e /\ c > 2 THEN Larger(2, c \div 2)
                  ELSE c
        IN  /\ arSt.called = (IF to # c THEN << to >> ELSE << >>)
            /\ arSt.called = << >> =>
                   /\ arSt.c = c
                   /\ arSt.missing = arSt.from.missing
                   /\ arSt.total = t

\* 20 shards of more than 500MB on average: the doubling was capped at 32
C19_Witness ==
    /\ arSt # NoAr
    /\ arSt.from.c = 20
    /\ arSt.from.missing = 1
    /\ arSt.called = << 32 >>
    /\ arSt.c = 32

\* C20: a second autoRebalance right after a first one leaves the shard
\* count as the first left it; repeated calls never shrink below 2 shards,
\* never grow above 32 and never grow after shrinking or shrink after
\* growing.
C20_AutoIdempotent ==
    (arSt # NoAr /\ Len(arSt.hist) >= 2) =>
        LET counts == << arSt.c0 >> \o arSt.hist
        IN  /\ counts[3] = counts[2]
            /\ \A i \in 2 .. Len(counts) :
                   /\ counts[i] < counts[i - 1] => counts[i] >= 2
                   /\ counts[i] > counts[i - 1] => counts[i] <= 32
            /\ \A i \in 2 .. Len(counts), j \in 2 .. Len(counts) :
                   ~ (counts[i] < counts[i - 1] /\ counts[j] > counts[j - 1])

C22_InitDetection ==
    /\ last.op = "create" =>
          /\ numOfShards = 1
          /\ ring = NodeNames(1)
          /\ \A i \in ShardIdx : files[i].exists <=> i = 0
          /\ files[0].data = EmptyDb
          /\ ioCount = 1
    /\ last.op = "load" =>
          /\ numOfShards = CountFiles(files, 0)
          /\ ring = NodeNames(numOfShards)

\* C23: init ensures at least one shard: the shard count is at least 1 and
\* the ring is never empty, whatever calls follow, and when init returns
\* getShard succeeds for every index below the shard count.
C23_AtLeastOneShard ==
    /\ numOfShards >= 1
    /\ ring # {}
    /\ last.op \in { "create", "load" } =>
          \A i \in ShardIdx : i < numOfShards => getShard(Store, cacheMax, i).st.ok

\* the part of C23 on the ring: it is never empty
RingNeverEmpty == numOfShards >= 1 /\ ring # {}

\* every quiescent store can load each of its shards
ShardsLoadable ==
    Quiet => \A i \in ShardIdx : i < numOfShards => getShard(Store, cacheMax, i).st.ok

\* C24: the nodes registered on the ring are exactly "0" .. "numOfShards-1",
\* and for every key parseInt(getNode(key)) is an index below the shard
\* count, after init and whatever rebalance, autoRebalance and reset calls
\* followed.
C24_RingMatchesCount ==
    /\ ring = { NumToString(i) : i \in 0 .. (numOfShards - 1) }
    /\ \A d \in DocIds : Route(d) \in 0 .. (numOfShards - 1)

\* an autoRebalance has changed the shard count of a store that had been
\* reset before, and a document routes to the last shard
C24_Witness ==
    /\ Quiet
    /\ last.op = "rebalance"
    /\ last.auto
    /\ last.n # last.from
    /\ outcome = "resolved"
    /\ numOfShards = last.n
    /\ \E d \in DocIds : Route(d) = numOfShards - 1

\* C25: getShard calls for one uncached index that run at the same time are
\* serialized: the shard file is read once and the callers are given the
\* same instance.
C25_GetShardSerialized ==
    gsSt # NoGs =>
        \A c1, c2 \in Callers :
            c1 \in gsSt.callers[c2].with =>
                /\ ~ (gsSt.callers[c1].read /\ gsSt.callers[c2].read)
                /\ ( /\ gsSt.callers[c1].pc \in { "done", "saved" }
                     /\ gsSt.callers[c2].pc \in { "done", "saved" } )
                       => gsSt.callers[c1].h = gsSt.callers[c2].h

\* the update a caller persisted is gone from the shard file after the
\* other caller of the same index persisted its own instance
LostUpdate ==
    /\ gsSt # NoGs
    /\ \E c1, c2 \in Callers :
          /\ c1 \in gsSt.callers[c2].with
          /\ gsSt.callers[c1].pc = "saved"
          /\ gsSt.callers[c2].pc = "saved"
          /\ gsSt.st.files[gsSt.callers[c1].idx].data[DocOf(c1)] = Absent

RECURSIVE PreHits(_, _, _, _)
\* the per-shard hits of the shards 0 .. n-1 as they were when the rebalance
\* in progress was called
PreHits(i, n, limit, similarity) ==
    IF i >= n THEN << >>
    ELSE OramaSearch(HitsOfDb(pre[i]), limit, similarity)
             \o PreHits(i + 1, n, limit, similarity)

\* what the search returns on the quiescent store the rebalance started from
QuiescentResult ==
    MergeHits(PreHits(0, op.cur, PerShardLimit(last.k, last.fetchK),
                      Similarity(NoLambda)), last.k)

\* C26: a search that runs while a rebalance is suspended returns what it
\* returns on the quiescent store: every stored document is seen once, none
\* is missed for having been moved, none is returned twice.
C26_SearchDuringRebalance ==
    (pc \in RbPositions /\ last.op = "search") => result = QuiescentResult

\* the next move of the rebalance in progress throws
MoveThrows ==
    /\ pc = "rb_move"
    /\ moveDocument(Store, cacheMax, Head(op.moved).id, parseInt(Head(op.moved).from),
                    parseInt(Head(op.moved).to)).threw

\* C27: a move that fails inside rebalance is caught: the rebalance goes on
\* with the remaining moves and the steps after them, it does not reject.
C27_BestEffortMoves ==
    [][ MoveThrows => pc' \in { "rb_move", "rb_persist" } ]_vars

\* the batches cover the file paths in order, each of at most 500
BatchesInOrder(batches, n) ==
    /\ \A j \in 1 .. Len(batches) :
          /\ batches[j].hi - batches[j].lo \in 1 .. 500
          /\ batches[j].lo = (IF j = 1 THEN 0 ELSE batches[j - 1].hi)
    /\ (IF Len(batches) = 0 THEN 0 ELSE batches[Len(batches)].hi) = n

C29_GrowTouchesNewOnly ==
    [][ (pc \in { "rb_expand1", "rb_expand2" }) =>
            \A i \in ShardIdx :
                /\ (i < op.cur /\ ShardView(cache, heap, files, i) # EmptyDb)
                       => ShardView(cache', heap', files', i) # EmptyDb
                /\ (i < op.cur /\ files[i].exists /\ files[i].data # EmptyDb)
                       => (files'[i].exists /\ files'[i].data # EmptyDb)
      ]_vars

\* a grown store lost a document it held
GrowLosesDocument ==
    /\ RebalanceDone
    /\ last.n > last.from
    /\ \E d \in IdsOf(saved) : \A i \in ShardIdx : Snapshot[i][d] = Absent

\* the destination of every move still to do is resident or has its file
DestinationsExist ==
    \A j \in 1 .. Len(op.moved) :
        \/ LruHas(cache, parseInt(op.moved[j].to))
        \/ files[parseInt(op.moved[j].to)].exists

\* the file of every shard below the new count holds what the shard holds
SurvivorsPersisted ==
    \A i \in ShardIdx : i < op.n =>
        /\ files[i].exists
        /\ files[i].data = ShardView(cache, heap, files, i)

\* C30: in a rebalance the destination shard of every move exists, in the
\* cache or on disk, when the moves begin; a shard file is deleted only when
\* all moves are done and the surviving shards are persisted; the ring and
\* the shard count are replaced only after the moves, the persisting and
\* the deletion of the old files.
C30_StepOrder ==
    [][ (pc \in RbPositions) =>
            /\ (pc = "rb_move") => DestinationsExist
            /\ (\E i \in ShardIdx : files[i].exists /\ ~ files'[i].exists)
                   => (op.moved = << >> /\ SurvivorsPersisted)
            /\ (numOfShards' # numOfShards \/ ring' # ring)
                   => /\ op.moved = << >>
                      /\ \A i \in ShardIdx :
                            /\ i < op.n => files[i].exists
                            /\ (i >= op.n /\ i < op.cur) => ~ files[i].exists
      ]_vars

\* a shrinking rebalance that moved a document out of a shard whose file it
\* then deleted is about to replace the ring and the shard count
C30_Witness ==
    /\ pc = "rb_install"
    /\ op.n < op.cur
    /\ ioCount > 0
    /\ \E d \in DocIds : \E j \in ShardIdx :
          /\ j >= op.n
          /\ j < op.cur
          /\ pre[j][d] # Absent
          /\ \E i \in ShardIdx : i < op.n /\ files[i].data[d] # Absent

\* a step of an operation that loads shards through the cache: a rebalance
\* before it installs its new cache, a saveMany task, a search
OperationStep ==
    \/ pc \in (RbPositions \ { "rb_install" })
    \/ pc = "save"
    \/ (pc = "idle" /\ last'.op = "search")

\* the instance the cache holds for shard i
Resident(i) == heap[cache[LruIndex(cache, i)].v]

\* C31: when a step of a ShardManager operation evicts a shard from the
\* cache, the content of the evicted instance is written to the shard's file,
\* and a write on its way to a file completes before that file is written
\* again.
C31_WriteBackOnEviction ==
    [][ /\ OperationStep =>
               \A i \in ShardIdx :
                   (LruHas(cache, i) /\ ~ LruHas(cache', i)) =>
                       \/ files'[i] = FileOf(Resident(i))
                       \/ [idx |-> i, data |-> Resident(i)] \in inflight'
        /\ \A w \in inflight :
               files'[w.idx] # files[w.idx] =>
                   (files'[w.idx] = FileOf(w.data) /\ w \notin inflight')
      ]_vars

\* a write left in flight by the rebalance landed after the rebalance had
\* persisted the shard again: the file holds a document the shard gave away
StaleWriteLanded ==
    \E i \in ShardIdx : \E d \in DocIds :
        /\ LruHas(cache, i)
        /\ files[i].exists
        /\ files[i].data[d] # Absent
        /\ Resident(i)[d] = Absent
        /\ pc = "rb_install"

\* the cache the rebalance at its last step builds, its handles not yet
\* renumbered
InstalledCache ==
    CopyCache([old |-> cache, new |-> << >>, fly |-> inflight, heap |-> heap],
              op.n, 0, 0).new

\* C32: the step that completes rebalance(n) leaves a cache of capacity n
\* that holds exactly the instances the old cache held for the indices below
\* n, the same objects with the same content, and nothing for an index from
\* n on; whenever a later step of an operation evicts a shard, the evicted
\* instance is written to its file or is on its way to it.
C32_CacheRebuild ==
    [][ /\ (pc = "rb_install" /\ pc' = "idle") =>
               /\ cacheMax' = op.n
               /\ LruKeys(cache') = { i \in LruKeys(cache) : i < op.n }
               /\ LruKeys(InstalledCache) = LruKeys(cache')
               /\ \A i \in LruKeys(cache') :
                     /\ InstalledCache[LruIndex(InstalledCache, i)].v
                            = cache[LruIndex(cache, i)].v
                     /\ heap'[cache'[LruIndex(cache', i)].v] = Resident(i)
               /\ inflight' = inflight
        /\ (OperationStep /\ last.op = "rebalance") =>
               \A i \in ShardIdx :
                   (LruHas(cache, i) /\ ~ LruHas(cache', i)) =>
                       \/ files'[i] = FileOf(Resident(i))
                       \/ [idx |-> i, data |-> Resident(i)] \in inflight'
      ]_vars

\* a shrinking rebalance has completed: its cache has the new capacity and
\* holds a shard with a document, and a shard of the old cache was dropped
C32_Witness ==
    /\ RebalanceDone
    /\ last.n < last.from
    /\ cacheMax = last.n
    /\ \E i \in LruKeys(cache) : IdsOf(Resident(i)) # {}
    /\ \E j \in ShardIdx : j >= last.n /\ pre[j] # EmptyDb

\* the virtual nodes of hr are in non-decreasing hash order, replicas of them
\* for each registered node and none for another node
RingWellFormed(hr, replicas) ==
    /\ \A i \in 1 .. (Len(hr.ring) - 1) : ~ HashLt(hr.ring[i + 1].hash, hr.ring[i].hash)
    /\ \A i \in 1 .. Len(hr.ring) : hr.ring[i].node \in hr.nodes
    /\ \A nd \in hr.nodes :
          Cardinality({ i \in 1 .. Len(hr.ring) : hr.ring[i].node = nd }) = replicas

\* C33: after every sequence of addNode and removeNode the ring is sorted by
\* hash and holds exactly replicas virtual nodes for each registered node
\* and none for any other; addNode of a registered node and removeNode of a
\* node that is not registered leave the ring as it is.
C33_RingStructure ==
    hrSt # NoHr =>
        \A hr \in { hrSt.a, hrSt.b } :
            /\ RingWellFormed(hr, hrSt.replicas)
            /\ \A nd \in RingNodeNames :
                  IF nd \in hr.nodes
                  THEN addNodeOf(hr, nd, hrSt.replicas) = hr
                  ELSE removeNode(hr, nd) = hr

\* a ring of the default replica count that kept two nodes when a third was
\* removed from it
C33_Witness ==
    /\ hrSt # NoHr
    /\ hrSt.replicas = Replicas
    /\ Cardinality(hrSt.a.nodes) = 2
    /\ Len(hrSt.a.ring) = 2 * Replicas
    /\ hrSt.gone # {}
    /\ hrSt.gone \cap hrSt.a.nodes = {}

\* the first ring has the default replica count and the nodes "0" .. "c-1"
RingOfCount(c) ==
    /\ hrSt # NoHr
    /\ hrSt.replicas = Replicas
    /\ hrSt.a.nodes = NodeNames(c)

\* what diffMovedIds reports for every key when the first ring goes to n nodes
MovedTo(n) == HrDiffMovedIds(hrSt.a, n, KeySeq(RingKeys))

\* C34: between rings of the same replica count, growing from c to n nodes
\* moves ids only to the nodes c .. n-1; shrinking from c to n moves ids only
\* from the nodes n .. c-1 and moves every id that was on one of them; no id
\* moves between two nodes of both rings.
C34_MinimalMovement ==
    \A c \in 1 .. MaxRingNodes : RingOfCount(c) =>
        \A n \in 1 .. MaxRing :
            LET moved == MovedTo(n)
                from  == [j \in 1 .. Len(moved) |-> parseInt(moved[j].from)]
                to    == [j \in 1 .. Len(moved) |-> parseInt(moved[j].to)]
            IN  /\ n > c => \A j \in 1 .. Len(moved) : to[j] >= c /\ to[j] < n
                /\ n < c => /\ \A j \in 1 .. Len(moved) : from[j] >= n /\ from[j] < c
                            /\ \A key \in RingKeys :
                                  parseInt(getNode(hrSt.a, key)) >= n =>
                                      \E j \in 1 .. Len(moved) : moved[j].id = key
                /\ \A j \in 1 .. Len(moved) :
                      ~ (from[j] < Smaller(c, n) /\ to[j] < Smaller(c, n))

\* a ring of two nodes, one of them removed and added again, from which ids
\* move both when it grows to three nodes and when it shrinks to one
C34_Witness ==
    /\ RingOfCount(2)
    /\ hrSt.gone = { nodeName(2) }
    /\ MovedTo(3) # << >>
    /\ MovedTo(1) # << >>
    /\ Len(MovedTo(1)) < Cardinality(RingKeys)

\* the shards below the shard count to which the batch in progress routes a
\* document
Targets == { s \in ShardIdx : s < numOfShards /\ IdsOf(Group(batch, ring, s)) # {} }

\* the shards a step drops from the cache
Evicted == { i \in ShardIdx : LruHas(cache, i) /\ ~ LruHas(cache', i) }

\* the tasks that persist their shard in a step
Persisting == { s \in ShardIdx : tasks[s].pc = "upd" /\ tasks'[s].pc = "done" }

\* C35 as stated: when saveMany resolves, exactly the shards to which the
\* batch routes a document were loaded and persisted, each once, and no
\* other shard file was written: the files written are as many as the
\* non-empty groups, none for an empty batch.
C35_TouchesOnlyWritten ==
    SaveDone =>
        /\ \A s \in ShardIdx : tasks[s].pc = (IF s \in Targets THEN "done" ELSE "none")
        /\ ioCount = Cardinality(Targets)

\* C35: saveMany starts a task exactly for the shards to which the batch
\* routes a document, and none for an empty batch, which leaves the cache
\* and the files alone; each task loads its shard at most once and persists
\* it once; the content of no other shard file changes; a file is written
\* only by the persist of a task and by the write-back of a shard that a
\* task's load evicts from the cache, with the content of the evicted
\* instance.
C35_SaveTouches ==
    [][ /\ (Quiet /\ last'.op = "saveMany") =>
               /\ \A s \in ShardIdx :
                     tasks'[s].pc # "none" <=>
                         (s < numOfShards /\ IdsOf(Group(batch', ring, s)) # {})
               /\ files' = files
               /\ batch' = EmptyDb =>
                     (cache' = cache /\ heap' = heap /\ pc' = "idle" /\ outcome' = "resolved")
        /\ (pc = "save") =>
               /\ \A s \in ShardIdx : tasks[s].pc = "none" <=> s \notin Targets
               /\ \A s \in ShardIdx :
                     tasks'[s].pc # tasks[s].pc =>
                         << tasks[s].pc, tasks'[s].pc >> \in { << "load", "upd" >>, << "upd", "done" >> }
               /\ \A i \in ShardIdx :
                     files'[i] # files[i] => i \in Persisting
               /\ \A i \in Evicted : files'[i] = FileOf(Resident(i))
               /\ ioCount' - ioCount = Cardinality(Persisting) + Cardinality(Evicted)
      ]_vars

\* a saveMany resolved one task of which loaded its shard and so evicted a
\* shard the batch routes nothing to, which was written back
C35_Witness ==
    /\ SaveDone
    /\ Targets # {}
    /\ ioCount > Cardinality(Targets)
    /\ \A s \in Targets : tasks[s].pc = "done"
    /\ \A d \in IdsOf(batch) : files[Route(d)].data[d] = batch[d]

\* shard idx is neither in the cache nor on disk
Missing(idx) == ~ LruHas(cache, idx) /\ ~ files[idx].exists

\* a step that leaves the manager as it is
ManagerKept ==
    /\ cache' = cache
    /\ heap' = heap
    /\ files' = files
    /\ ring' = ring
    /\ numOfShards' = numOfShards
    /\ cacheMax' = cacheMax

\* C36: getShard of an index that is neither cached nor on disk fails and
\* leaves the cache, the instances and the files as they are; the rebalance,
\* the saveMany task and the search that make this call reject, create no
\* shard for the index and leave the ring and the shard count alone.
C36_FailFast ==
    [][ /\ \A idx \in ShardIdx :
               Missing(idx) =>
                   LET r == getShard(Store, cacheMax, idx)
                   IN  /\ ~ r.st.ok
                       /\ r.h = 0
                       /\ r.st.cache = cache
                       /\ r.st.heap = heap
                       /\ r.st.files = files
        /\ (pc = "rb_collect" /\ pc' # pc /\ Missing(op.i)) =>
               (outcome' = "rejected" /\ pc' = "idle" /\ ManagerKept)
        /\ \A s \in ShardIdx :
               (pc = "save" /\ tasks[s].pc = "load" /\ tasks'[s].pc # "load" /\ Missing(s)) =>
                   (tasks'[s].pc = "failed" /\ outcome' = "rejected" /\ ManagerKept)
        /\ (Quiet /\ last'.op = "search") =>
               /\ (\E i \in ShardIdx : i < numOfShards /\ Missing(i)) =>
                      (outcome' = "rejected" /\ result' = << >>)
               /\ \A i \in ShardIdx :
                      Missing(i) => (~ LruHas(cache', i) /\ ~ files'[i].exists)
               /\ Missing(0) => ManagerKept
               /\ ring' = ring
               /\ numOfShards' = numOfShards
      ]_vars

\* a search on a manager whose only shard is neither cached nor on disk was
\* rejected and left the shard missing
C36_Witness ==
    /\ pc = "idle"
    /\ last.op = "search"
    /\ outcome = "rejected"
    /\ numOfShards = 1
    /\ cache = << >>
    /\ ~ files[0].exists

\* C37: when a rebalance during which a saveMany ran has resolved, every
\* document of that saveMany is in the file of the shard the new ring routes
\* its id to, with the content saved, and in no other shard.
C37_SaveDuringRebalance ==
    (RebalanceDone /\ batch # EmptyDb) =>
        \A d \in IdsOf(batch) : \A i \in ShardIdx :
            (IF files[i].exists THEN files[i].data[d] ELSE Absent)
                = (IF i = Route(d) THEN batch[d] ELSE Absent)

\* a document saved while the store shrank is in no shard file afterwards
SavedDocumentGone ==
    /\ RebalanceDone
    /\ last.n < last.from
    /\ \E d \in IdsOf(batch) :
          /\ \A i \in ShardIdx : ~ (files[i].exists /\ files[i].data[d] # Absent)
          /\ \A i \in ShardIdx : pre[i][d] = Absent

\* the prompt of the j-th invoke: the input, after j-1 corrective messages
PromptOfAttempt(input, j) ==
    IF j = 1 THEN input
    ELSE [kind |-> "array",
          msgs |-> [k \in 1 .. (j - 1) |-> Corrective] \o input.msgs]

\* C40: callWithStructuredOutput invokes the model at most three times; it
\* returns the value of the first invoke that succeeds and invokes no more;
\* after a failed first or second invoke it invokes again with a corrective
\* system message put in front of the prompt; when all three invokes fail it
\* throws the error of the third.
C40_StructuredRetry ==
    (soSt # NoSo /\ soSt.res # NoRes) =>
        LET res == soSt.res
            n   == Len(res.prompts)
        IN  /\ n >= 1
            /\ n <= 3
            /\ \A j \in 1 .. (n - 1) : ~ soSt.replies[j].ok
            /\ \A j \in 1 .. n : res.prompts[j] = PromptOfAttempt(soSt.input, j)
            /\ IF soSt.replies[n].ok
               THEN res.outcome = "returned" /\ res.value = soSt.replies[n].v
               ELSE n = 3 /\ res.outcome = "thrown" /\ res.err = soSt.replies[3].v

\* a call on a prompt value returned the value of its third invoke after two
\* different errors
C40_Witness ==
    /\ soSt # NoSo
    /\ soSt.input.kind = "promptValue"
    /\ soSt.res.outcome = "returned"
    /\ Len(soSt.res.prompts) = 3
    /\ soSt.replies[1] # soSt.replies[2]
    /\ soSt.res.value = 2

\* the sole invocation of a fresh graph
Fresh == cgSt.inv[1]

\* the invocation has stopped: it reached __end__ or a node rejected
Terminated(r) == r.pc \in {"end", "failed"}

\* C38 as stated: the invocation of a fresh graph stops having consulted
\* the evaluator model at most MAX_RETRIES times, retrieved at most
\* MAX_RETRIES + 1 times and generated exactly one answer, whatever the
\* evaluator answers.
C38_ChatGraphBounds ==
    (cgSt # NoCg /\ Terminated(Fresh)) =>
        /\ Fresh.modelCalls <= MAX_RETRIES
        /\ Fresh.retrievals <= MAX_RETRIES + 1
        /\ Fresh.answers = 1

\* what holds of the invocation of a fresh graph at every moment
FreshBounds ==
    cgSt # NoCg =>
        /\ Fresh.evals <= MAX_RETRIES
        /\ Fresh.evals = cgSt.attempts
        /\ Fresh.retrievals <= Fresh.evals + 1
        /\ Fresh.modelCalls <= StructuredAttempts * Fresh.evals
        /\ ~ Fresh.bad => Fresh.modelCalls = Fresh.evals
        /\ Fresh.answers = (IF Fresh.pc = "end" THEN 1 ELSE 0)
        /\ Fresh.pc = "failed" => Fresh.bad \/ Fresh.retrievals = 0
        /\ (Fresh.pc = "end" /\ ~ Fresh.saidEnough) =>
              /\ Fresh.evals = MAX_RETRIES
              /\ Fresh.retrievals = MAX_RETRIES + 1

\* C38, amended: the invocation of a fresh graph always stops. The evaluate
\* node goes to the model at most MAX_RETRIES times and retrieval runs at
\* most MAX_RETRIES + 1 times; an evaluation whose output is invalid invokes
\* the model again, up to three invokes an evaluation, and only without
\* invalid outputs is the model invoked once an evaluation. An invocation
\* that reaches the end generated exactly one answer, and one in which the
\* evaluator never reported enough did exactly MAX_RETRIES evaluations and
\* MAX_RETRIES + 1 retrievals; an invocation fails, without an answer, only
\* when a structured output stayed invalid for three invokes.
C38_ChatGraphTerminates ==
    /\ []FreshBounds
    /\ (cgSt # NoCg /\ Fresh.pc = "analyseQuery") ~> (cgSt # NoCg /\ Terminated(Fresh))

\* the evaluator said "not enough" every time, once after an invalid output,
\* and the invocation ended with its answer
C38_Witness ==
    /\ cgSt # NoCg
    /\ Fresh.pc = "end"
    /\ ~ Fresh.saidEnough
    /\ Fresh.evals = MAX_RETRIES
    /\ Fresh.retrievals = MAX_RETRIES + 1
    /\ Fresh.modelCalls = MAX_RETRIES + 1
    /\ Fresh.answers = 1

\* C39: an invocation at its evaluate node that has made fewer than
\* MAX_RETRIES evaluations gets an evaluation, whatever other invocations of
\* the same graph have done.
C39_BudgetPerInvocation ==
    cgSt # NoCg =>
        \A c \in Convs :
            (cgSt.inv[c].pc = "evaluateContext" /\ cgSt.inv[c].evals < MAX_RETRIES)
                => ~ BudgetSpent(cgSt.attempts)

\* an invocation ended with an answer and without one evaluation, the
\* evaluations having been used up by another invocation
BudgetTakenByOther ==
    /\ cgSt # NoCg
    /\ \E c, o \in Convs :
          /\ c # o
          /\ cgSt.inv[c].pc = "end"
          /\ cgSt.inv[c].evals = 0
          /\ cgSt.inv[o].evals = MAX_RETRIES

====
